---- MODULE Spec2Model ----
\* Front-end pipeline of StanzaFlow: the tree-to-AST transformer's attribute
\* rule (core/ast.py), AST-to-IR lowering, the cached schema validator
\* (core/ir.py) and the compiler facade's error flow.
\*
\* Text is modelled as a sequence of characters, each character a one-element
\* string.  Two characters outside ASCII are written by their code point:
\* "U+00B2" (SUPERSCRIPT TWO: str.isdigit() is True, int() raises ValueError)
\* and "U+0663" (ARABIC-INDIC DIGIT THREE: a Unicode decimal digit, int() = 3).
EXTENDS Integers, Sequences, FiniteSets, TLC

\* ------------------------------------------------------------------ bounds

\* attribute lines of a step with more than one line
MaxAttrs == 2

\* threads that call into the pipeline
NumThreads == 2

\* calls made in one run
MaxCalls == 2

\* agents of a workflow given to workflow_to_ir, and escape blocks of one
MaxBlocks == 2

\* ------------------------------------------------------------- characters

LOWER ==
    << "a","b","c","d","e","f","g","h","i","j","k","l","m",
       "n","o","p","q","r","s","t","u","v","w","x","y","z" >>

UPPER ==
    << "A","B","C","D","E","F","G","H","I","J","K","L","M",
       "N","O","P","Q","R","S","T","U","V","W","X","Y","Z" >>

Range(s) == { s[i] : i \in DOMAIN s }

\* the class [a-zA-Z_] of the attribute regex
IsKeyChar(c) == c \in Range(LOWER) \cup Range(UPPER) \cup {"_"}

\* \s of the regex and the characters str.strip() removes
IsSpace(c) == c \in {" ", "\t", "\n", "\r"}

AsciiDigits == << "0","1","2","3","4","5","6","7","8","9" >>

\* decimal digits (Unicode category Nd): the characters int() accepts
IsDecimalChar(c) == c \in Range(AsciiDigits) \cup {"U+0663"}

\* characters for which str.isdigit() is True: Nd and the other digit
\* characters such as superscripts
IsDigitChar(c) == IsDecimalChar(c) \/ c = "U+00B2"

DigitValue(c) ==
    IF c = "U+0663" THEN 3
    ELSE (CHOOSE i \in DOMAIN AsciiDigits : AsciiDigits[i] = c) - 1

\* str.lower() on one character
LowerChar(c) ==
    IF c \in Range(UPPER)
    THEN LOWER[CHOOSE i \in DOMAIN UPPER : UPPER[i] = c]
    ELSE c

UpperChar(c) ==
    IF c \in Range(LOWER)
    THEN UPPER[CHOOSE i \in DOMAIN LOWER : LOWER[i] = c]
    ELSE c

\* --------------------------------------------------------------- strings

\* str.lower()
StrLower(s) == [ i \in DOMAIN s |-> LowerChar(s[i]) ]

StrUpper(s) == [ i \in DOMAIN s |-> UpperChar(s[i]) ]

Capitalize(s) == [ i \in DOMAIN s |-> IF i = 1 THEN UpperChar(s[i]) ELSE s[i] ]

\* number of leading whitespace characters of s
LeadSpace(s) ==
    CHOOSE n \in 0..Len(s) :
        /\ \A i \in 1..n : IsSpace(s[i])
        /\ (n = Len(s) \/ ~IsSpace(s[n + 1]))

\* number of trailing whitespace characters of s
TrailSpace(s) ==
    CHOOSE n \in 0..Len(s) :
        /\ \A i \in (Len(s) - n + 1)..Len(s) : IsSpace(s[i])
        /\ (n = Len(s) \/ ~IsSpace(s[Len(s) - n]))

\* str.strip()
StrStrip(s) ==
    IF LeadSpace(s) = Len(s) THEN << >>
    ELSE SubSeq(s, LeadSpace(s) + 1, Len(s) - TrailSpace(s))

\* str.isdigit(): non-empty and every character a digit character
StrIsDigit(s) == s # << >> /\ \A i \in DOMAIN s : IsDigitChar(s[i])

\* the text is non-empty and made of decimal digits only
StrIsDecimal(s) == s # << >> /\ \A i \in DOMAIN s : IsDecimalChar(s[i])

RECURSIVE DecimalValue(_)
DecimalValue(s) ==
    IF s = << >> THEN 0
    ELSE 10 * DecimalValue(SubSeq(s, 1, Len(s) - 1)) + DigitValue(s[Len(s)])

\* ---------------------------------------------------------------- values

StrVal(s) == [ type |-> "str", s |-> s, n |-> 0 ]

IntVal(n) == [ type |-> "int", s |-> << >>, n |-> n ]

\* outcome of a Python call: a returned value or a raised exception
Returned(v) == [ kind |-> "return", value |-> v ]

Raised(e) == [ kind |-> "raise", exc |-> e ]

\* int(text): the value of an all-decimal text, ValueError otherwise
PyInt(s) ==
    IF StrIsDecimal(StrStrip(s)) THEN Returned(DecimalValue(StrStrip(s)))
    ELSE Raised("ValueError")

\* ------------------------------------------------------------------- AST

StepAttribute(key, value) == [ kind |-> "StepAttribute", key |-> key, value |-> value ]

None == [ kind |-> "None" ]

artifact == << "a","r","t","i","f","a","c","t" >>

retry == << "r","e","t","r","y" >>

timeout == << "t","i","m","e","o","u","t" >>

on_error == << "o","n","_","e","r","r","o","r" >>

branch == << "b","r","a","n","c","h" >>

finally == << "f","i","n","a","l","l","y" >>

\* a key the dialect does not know
priority == << "p","r","i","o","r","i","t","y" >>

NumericKeys == { retry, timeout }

StringKeys == { artifact, on_error, branch, finally }

RecognizedKeys == NumericKeys \cup StringKeys

\* ------------------------------------------------------------ parse tree

Token(type, value) == [ node |-> "Token", data |-> type, value |-> value, children |-> << >> ]

Tree(data, children) == [ node |-> "Tree", data |-> data, value |-> << >>, children |-> children ]

\* ------------------------------------------------- the attribute regex

\* The value of an expression is bound to a name x by { F(x) : x \in {e} },
\* a set of one element; Only gives that element.
Only(S) == CHOOSE x \in S : TRUE

Min(S) == CHOOSE x \in S : \A y \in S : x <= y

Max(S) == CHOOSE x \in S : \A y \in S : y <= x

NoMatch == [ matched |-> FALSE, key |-> << >>, val |-> << >> ]

\* what `$` leaves of the candidate value: the text, without one final newline
BeforeDollar(v) ==
    IF v # << >> /\ v[Len(v)] = "\n" THEN SubSeq(v, 1, Len(v) - 1) ELSE v

\* `.+` matches v: non-empty and no line break
DotPlus(v) == v # << >> /\ \A i \in DOMAIN v : v[i] # "\n"

\* (?P<key>[a-zA-Z_]+) is greedy: the length of the longest run of key characters
KeyLength(line) ==
    CHOOSE n \in 0..Len(line) :
        /\ \A i \in 1..n : IsKeyChar(line[i])
        /\ (n = Len(line) \/ ~IsKeyChar(line[n + 1]))

\* \s*(?P<val>.+)$ on the text after the colon: \s* is greedy and gives back
\* what .+ needs; `cuts` are the lengths \s* can take
MatchValue(key, rest, cuts) ==
    IF cuts = {} THEN NoMatch
    ELSE [ matched |-> TRUE, key |-> key,
           val |-> BeforeDollar(SubSeq(rest, Max(cuts) + 1, Len(rest))) ]

\* \s*: at position c of the line, after the key of length k
MatchColon(line, k, c) ==
    IF k = 0 \/ c > Len(line) THEN NoMatch
    ELSE IF line[c] # ":" THEN NoMatch
    ELSE Only({ MatchValue(SubSeq(line, 1, k), rest,
                           { w \in 0..LeadSpace(rest) :
                               DotPlus(BeforeDollar(SubSeq(rest, w + 1, Len(rest)))) }) :
                rest \in { SubSeq(line, c + 1, Len(line)) } })

\* re.match(r"^(?P<key>[a-zA-Z_]+)\s*:\s*(?P<val>.+)$", line)
ReMatch(line) ==
    Only({ Only({ MatchColon(line, k, c) :
                  c \in { k + LeadSpace(SubSeq(line, k + 1, Len(line))) + 1 } }) :
           k \in { KeyLength(line) } })

\* -------------------------------------------------------- transformer

\* `continue`, or falling out of the dispatch: the loop goes to the next child
Continue == [ kind |-> "continue" ]

\* return StepAttribute(key=key, value=int(raw_val)), given what int() did
IntAttribute(key, parsed) ==
    IF parsed.kind = "raise" THEN Raised(parsed.exc)
    ELSE Returned(StepAttribute(key, IntVal(parsed.value)))

\* the numeric branch of the dispatch: isdigit() guards int()
NumericAttribute(key, raw_val) ==
    IF StrIsDigit(raw_val)
    THEN Only({ IntAttribute(key, parsed) : parsed \in { PyInt(raw_val) } })
    ELSE Continue

\* a string branch that turns digit values into integers
StringAttributeTyped(key, raw_val) ==
    IF StrIsDigit(raw_val) THEN NumericAttribute(key, raw_val)
    ELSE Returned(StepAttribute(key, StrVal(raw_val)))

\* return StepAttribute(key=key, value=raw_val)
StringAttribute(key, raw_val) == Returned(StepAttribute(key, StrVal(raw_val)))

\* a capture that keeps the key as written
CaptureKeyVerbatim(text) == text

\* lower-casing of the captured key
CaptureKey(text) == StrLower(text)

\* a dispatch that keeps a line of any key as a string attribute
DispatchAnyKey(key, raw_val) ==
    IF key \in NumericKeys THEN NumericAttribute(key, raw_val)
    ELSE StringAttribute(key, raw_val)

\* the dispatch on the key
Dispatch(key, raw_val) ==
    IF key = artifact THEN StringAttribute(artifact, raw_val)
    ELSE IF key \in NumericKeys THEN NumericAttribute(key, raw_val)
    ELSE IF key \in {on_error, branch, finally} THEN StringAttribute(key, raw_val)
    ELSE Continue

\* `if not match: continue`, then the captures
DispatchMatch(m) ==
    IF ~m.matched THEN Continue
    ELSE Only({ Only({ Dispatch(key, raw_val) : raw_val \in { StrStrip(m.val) } }) :
                key \in { CaptureKey(m.key) } })

\* body of the loop of _transform_step_attribute for one Token child
TransformToken(value) ==
    Only({ Only({ DispatchMatch(m) : m \in { ReMatch(line) } }) :
           line \in { StrStrip(value) } })

\* the end of a loop over children whose bodies gave `outcome`: the first
\* body that returned or raised, or the `otherwise` after the loop
FirstEnd(outcome, otherwise) ==
    IF \A i \in DOMAIN outcome : outcome[i].kind = "continue" THEN otherwise
    ELSE outcome[Min({ i \in DOMAIN outcome : outcome[i].kind # "continue" })]

\* StanzaFlowTransformer._transform_step_attribute
TransformStepAttribute(tree) ==
    Only({ FirstEnd(outcome, Returned(None)) :
           outcome \in { [ i \in DOMAIN tree.children |->
                             IF tree.children[i].node = "Token"
                             THEN TransformToken(tree.children[i].value)
                             ELSE Continue ] } })

\* an append without the `if attr:` test
AttrAlwaysTrue(attr) == TRUE

\* `if attr:` a StepAttribute is true, None is not
AttrIsTrue(attr) == attr.kind # "None"

\* `if attr: attributes.append(attr)`: a body whose attr is not true appends nothing
AppendIfTrue(r) ==
    IF r.kind = "return" /\ ~AttrIsTrue(r.value) THEN Continue ELSE r

\* the outcome of a loop body whose value the loop appends
Kept(r) == r.kind = "return"

\* the values of `kept`, one list
Values(kept) == [ i \in DOMAIN kept |-> kept[i].value ]

\* the list built by a loop whose bodies gave `outcome`, or the first exception
Collected(outcome) ==
    IF \E i \in DOMAIN outcome : outcome[i].kind = "raise"
    THEN outcome[Min({ i \in DOMAIN outcome : outcome[i].kind = "raise" })]
    ELSE Returned(Values(SelectSeq(outcome, Kept)))

\* StanzaFlowTransformer._transform_step_body
TransformStepBody(tree) ==
    Only({ Collected(outcome) :
           outcome \in { [ i \in DOMAIN tree.children |->
                             IF /\ tree.children[i].node = "Tree"
                                /\ tree.children[i].data = "step_attr"
                             THEN AppendIfTrue(TransformStepAttribute(tree.children[i]))
                             ELSE Continue ] } })

\* text of a character sequence, for messages
RECURSIVE Join(_)
Join(s) == IF s = << >> THEN "" ELSE s[1] \o Join(Tail(s))

\* str.lstrip("# "): drops every leading '#' and ' '
LStripHashSpace(s) ==
    SubSeq(s,
           1 + (CHOOSE m \in 0..Len(s) :
                   /\ \A i \in 1..m : s[i] \in {"#", " "}
                   /\ (m = Len(s) \/ s[m + 1] \notin {"#", " "})),
           Len(s))

IsNode(node, kind, data) == node.node = kind /\ node.data = data

\* a heading kept as the token holds it, '# ' and all
HeadingVerbatim(value) == value

\* child.value.strip().lstrip("# ").strip()
HeadingText(value) ==
    Only({ StrStrip(t) : t \in { Only({ LStripHashSpace(u) : u \in { StrStrip(value) } }) } })

\* StanzaFlowTransformer._extract_heading: the first HEADING token
ExtractHeading(tree) ==
    IF \A i \in DOMAIN tree.children : ~IsNode(tree.children[i], "Token", "HEADING")
    THEN << >>
    ELSE HeadingText(
             tree.children[Min({ i \in DOMAIN tree.children :
                                   IsNode(tree.children[i], "Token", "HEADING") })].value)

\* a name subtree that holds a token first
HoldsToken(node) == node.children # << >> /\ node.children[1].node = "Token"

\* the name held by a name subtree (its first token) or a name token
NameOf(node) ==
    IF node.node = "Tree"
    THEN IF HoldsToken(node) THEN StrStrip(node.children[1].value) ELSE << >>
    ELSE StrStrip(node.value)

\* a child of `data` that yields a name: a token, or a subtree holding one
Names(node, data) == node.data = data /\ (node.node = "Tree" => HoldsToken(node))

\* StanzaFlowTransformer._extract_agent_name
ExtractAgentName(tree) ==
    IF \A i \in DOMAIN tree.children : ~Names(tree.children[i], "agent_name") THEN << >>
    ELSE NameOf(tree.children[Min({ i \in DOMAIN tree.children :
                                      Names(tree.children[i], "agent_name") })])

Step(name, attributes) == [ name |-> name, attributes |-> attributes ]

\* the name of a step from tree.children[1] (the second child)
StepName(step_name_tree) ==
    IF step_name_tree.node = "Tree" /\ step_name_tree.data # "step_name" THEN << >>
    ELSE NameOf(step_name_tree)

\* Step(name=step_name) with the attributes of the body, or its exception
StepOf(name, body) ==
    IF body.kind = "raise" THEN body ELSE Returned(Step(name, body.value))

\* StanzaFlowTransformer._transform_step
TransformStep(tree) ==
    IF Len(tree.children) < 2 THEN Raised("IndexError")
    ELSE Only({ StepOf(StepName(tree.children[2]), body) :
                body \in { TransformStepBody(tree) } })

Agent(name, steps) == [ name |-> name, steps |-> steps ]

\* the name of an agent from tree.children[0] (the first child)
AgentName(agent_header) ==
    IF agent_header.node = "Tree" THEN ExtractAgentName(agent_header) ELSE << >>

\* Agent(name=agent_name) with the steps appended, or the exception of a step
AgentOf(name, steps) ==
    IF steps.kind = "raise" THEN steps ELSE Returned(Agent(name, steps.value))

\* the loop over tree.children[1:] of _transform_agent_block
AgentSteps(tree) ==
    Only({ Collected(outcome) :
           outcome \in { [ i \in DOMAIN tree.children |->
                             IF i > 1 /\ IsNode(tree.children[i], "Tree", "step")
                             THEN TransformStep(tree.children[i])
                             ELSE Continue ] } })

\* StanzaFlowTransformer._transform_agent_block
TransformAgentBlock(tree) ==
    IF tree.children = << >> THEN Raised("IndexError")
    ELSE Only({ AgentOf(AgentName(tree.children[1]), steps) :
                steps \in { AgentSteps(tree) } })

EscapeBlock(target, code) == [ target |-> target, code |-> code ]

\* the stripped value of the last (kind, data) child of a tree, or the empty text
LastValue(children, kind, data) ==
    IF \A i \in DOMAIN children : ~IsNode(children[i], kind, data) THEN << >>
    ELSE StrStrip(children[Max({ i \in DOMAIN children :
                                   IsNode(children[i], kind, data) })].value)

\* the target named by the last escape_target child that names one
EscapeTarget(children) ==
    IF \A i \in DOMAIN children : ~Names(children[i], "escape_target") THEN << >>
    ELSE NameOf(children[Max({ i \in DOMAIN children :
                                 Names(children[i], "escape_target") })])

\* StanzaFlowTransformer._transform_escape_block
TransformEscapeBlock(tree) ==
    EscapeBlock(EscapeTarget(tree.children), LastValue(tree.children, "Token", "CODE_BLOCK"))

SecretBlock(env_var) == [ env_var |-> env_var ]

\* StanzaFlowTransformer._transform_secret_block
TransformSecretBlock(tree) == SecretBlock(LastValue(tree.children, "Token", "ENV_VAR"))

Workflow(title, agents, escape_blocks, secret_blocks) ==
    [ title |-> title, agents |-> agents,
      escape_blocks |-> escape_blocks, secret_blocks |-> secret_blocks ]

\* the children of the content subtrees among `children`, in document order
RECURSIVE ContentChildren(_)
ContentChildren(children) ==
    IF children = << >> THEN << >>
    ELSE (IF IsNode(Head(children), "Tree", "content")
          THEN Head(children).children ELSE << >>)
         \o ContentChildren(Tail(children))

IsEscapeBlock(node) == IsNode(node, "Tree", "escape_block")

IsSecretBlock(node) == IsNode(node, "Tree", "secret_block")

\* workflow.title after the loop: the heading child met last sets it
TitleOf(children) ==
    IF \A i \in DOMAIN children : ~IsNode(children[i], "Tree", "heading") THEN << >>
    ELSE ExtractHeading(children[Max({ i \in DOMAIN children :
                                         IsNode(children[i], "Tree", "heading") })])

EscapeBlocks(blocks) == [ i \in DOMAIN blocks |-> TransformEscapeBlock(blocks[i]) ]

\* secret blocks appended last first
SecretBlocksReversed(blocks) ==
    [ i \in DOMAIN blocks |-> TransformSecretBlock(blocks[Len(blocks) + 1 - i]) ]

SecretBlocks(blocks) == [ i \in DOMAIN blocks |-> TransformSecretBlock(blocks[i]) ]

\* the agents of the blocks of the content subtrees, or the exception of one
ContentAgents(blocks) ==
    Only({ Collected(outcome) :
           outcome \in { [ i \in DOMAIN blocks |->
                             IF IsNode(blocks[i], "Tree", "agent_block")
                             THEN TransformAgentBlock(blocks[i])
                             ELSE Continue ] } })

\* the workflow built from the blocks, or the exception of an agent block
WorkflowOf(children, blocks, agents) ==
    IF agents.kind = "raise" THEN agents
    ELSE Returned(Workflow(TitleOf(children), agents.value,
                           EscapeBlocks(SelectSeq(blocks, IsEscapeBlock)),
                           SecretBlocks(SelectSeq(blocks, IsSecretBlock))))

\* the loops of transform over the children of the workflow tree
TransformChildren(children) ==
    Only({ Only({ WorkflowOf(children, blocks, agents) :
                  agents \in { ContentAgents(blocks) } }) :
           blocks \in { ContentChildren(children) } })

\* StanzaFlowTransformer.transform
Transform(tree) ==
    IF tree.data # "start" THEN TransformChildren(tree.children)
    ELSE IF tree.children = << >> THEN Raised("IndexError")
    ELSE IF tree.children[1].node = "Tree" THEN TransformChildren(tree.children[1].children)
    ELSE Returned(Workflow(<< >>, << >>, << >>, << >>))

\* ---------------------------------------------------------------- lowering

\* a mapping in which the first attribute of a key gives the key's value
LowerAttributesFirst(attributes) ==
    [ k \in { attributes[i].key : i \in DOMAIN attributes } |->
        attributes[Min({ i \in DOMAIN attributes : attributes[i].key = k })].value ]

\* the attributes mapping of a step: attributes[attr.key] = attr.value in list
\* order, so the last attribute of a key gives the key's value
LowerAttributes(attributes) ==
    [ k \in { attributes[i].key : i \in DOMAIN attributes } |->
        attributes[Max({ i \in DOMAIN attributes : attributes[i].key = k })].value ]

LowerStep(step) ==
    [ name |-> step.name,
      attributes |-> LowerAttributes(step.attributes) ]

LowerAgent(agent) ==
    [ name |-> agent.name,
      steps |-> [ j \in DOMAIN agent.steps |-> LowerStep(agent.steps[j]) ] ]

\* a lowering that emits the agents last first
LowerWorkflowReversed(wf) ==
    [ ir_version |-> StrVal(<< "0.2" >>),
      workflow |->
        [ title |-> wf.title,
          agents |-> [ i \in DOMAIN wf.agents |->
                         LowerAgent(wf.agents[Len(wf.agents) + 1 - i]) ],
          escape_blocks |->
            [ i \in DOMAIN wf.escape_blocks |->
                [ target |-> wf.escape_blocks[i].target, code |-> wf.escape_blocks[i].code ] ],
          secrets |->
            [ i \in DOMAIN wf.secret_blocks |-> [ env_var |-> wf.secret_blocks[i].env_var ] ] ] ]

\* StanzaFlowCompiler.workflow_to_ir, up to the validate_ir call
LowerWorkflow(wf) ==
    [ ir_version |-> StrVal(<< "0.2" >>),
      workflow |->
        [ title |-> wf.title,
          agents |-> [ i \in DOMAIN wf.agents |-> LowerAgent(wf.agents[i]) ],
          escape_blocks |->
            [ i \in DOMAIN wf.escape_blocks |->
                [ target |-> wf.escape_blocks[i].target, code |-> wf.escape_blocks[i].code ] ],
          secrets |->
            [ i \in DOMAIN wf.secret_blocks |-> [ env_var |-> wf.secret_blocks[i].env_var ] ] ] ]

\* ------------------------------------------------------------- exceptions

\* an exception object: StanzaFlowError.__init__ keeps the message; `cause` is
\* the type of the exception it was raised from
Exc(type, message, cause) ==
    [ type |-> type, message |-> message, cause |-> cause,
      path |-> "", value |-> None, original_error |-> None ]

ParseError(message, cause) == Exc("ParseError", message, cause)

\* ValidationError.__init__
ValidationError(message, path, value, original_error) ==
    [ type |-> "ValidationError", message |-> message,
      cause |-> "jsonschema.ValidationError",
      path |-> path, value |-> value, original_error |-> original_error ]

\* one element of a jsonschema absolute_path: a property name or an array index
Key(name) == [ index |-> FALSE, name |-> name, i |-> 0 ]

Index(i) == [ index |-> TRUE, name |-> "", i |-> i ]

\* the separator " \u2192 " (U+2192, rightwards arrow) of the human path
Arrow == " -> "

\* the loop of from_jsonschema_error that renders absolute_path
RECURSIVE HumanPathFrom(_, _, _)
HumanPathFrom(path, i, text) ==
    IF i > Len(path) THEN text
    ELSE IF path[i].index
    THEN HumanPathFrom(path, i + 1, text \o "[" \o ToString(path[i].i) \o "]")
    ELSE IF i > 1
    THEN HumanPathFrom(path, i + 1, text \o Arrow \o path[i].name)
    ELSE HumanPathFrom(path, i + 1, path[i].name)

\* a rendering without the name for the empty path
HumanPathNoRoot(path) == HumanPathFrom(path, 1, "")

\* "".join(path_parts) if path_parts else "root": every part of the path
\* appends one element to path_parts
HumanPath(path) ==
    IF path = << >> THEN "root" ELSE HumanPathFrom(path, 1, "")

\* str(v) of a Python value
PyStr(v) == IF v.type = "str" THEN Join(v.s) ELSE ToString(v.n)

\* ', '.join(map(str, allowed))
RECURSIVE JoinComma(_)
JoinComma(allowed) ==
    IF allowed = << >> THEN ""
    ELSE IF Len(allowed) = 1 THEN PyStr(allowed[1])
    ELSE PyStr(allowed[1]) \o ", " \o JoinComma(Tail(allowed))

\* error.schema.get("type", "unknown")
SchemaType(schema) == IF "type" \in DOMAIN schema THEN schema.type ELSE "unknown"

\* error.schema.get("enum", [])
SchemaEnum(schema) == IF "enum" \in DOMAIN schema THEN schema.enum ELSE << >>

\* a message that never names the property
MissingPropDefault(message) == "property"

\* error.message.split("'")[1] if "'" in error.message else "property":
\* a message is a sequence of parts, the quote character a part of its own
MissingProp(message) ==
    LET quotes == { i \in DOMAIN message : message[i] = "'" }
        q1     == CHOOSE i \in quotes : \A j \in quotes : i <= j
        later  == { i \in quotes : i > q1 }
        q2     == IF later = {} THEN Len(message) + 1
                  ELSE CHOOSE i \in later : \A j \in later : i <= j
    IN  IF quotes = {} THEN "property"
        ELSE Join(SubSeq(message, q1 + 1, q2 - 1))

\* a message that gives the path alone
FriendlyMessagePathOnly(error) ==
    << "Validation error at ", HumanPath(error.absolute_path) >>

\* a message built the same way for every kind of violation
FriendlyMessageGeneric(error) ==
    << "Validation error at ", HumanPath(error.absolute_path), ": " >> \o error.message

\* message built by ValidationError.from_jsonschema_error
FriendlyMessage(error) ==
    IF error.validator = "required"
    THEN << "Missing required property '", MissingProp(error.message), "' at ",
            HumanPath(error.absolute_path) >>
    ELSE IF error.validator = "type"
    THEN << "Expected ", SchemaType(error.schema), " at ", HumanPath(error.absolute_path),
            ", got ", error.instance.pytype >>
    ELSE IF error.validator = "enum"
    THEN << "Invalid value at ", HumanPath(error.absolute_path),
            ". Allowed values: ", JoinComma(SchemaEnum(error.schema)) >>
    ELSE << "Validation error at ", HumanPath(error.absolute_path), ": " >>
            \o error.message

\* ValidationError.from_jsonschema_error
FromJsonschemaError(error) ==
    ValidationError(FriendlyMessage(error), HumanPath(error.absolute_path),
                    error.instance, error)

\* ------------------------------------------------------- schema validator

\* an instance as jsonschema reports it: the Python type name and the value
Instance(pytype, v) == [ pytype |-> pytype, v |-> v ]

\* a jsonschema.ValidationError
JsonschemaError(validator, absolute_path, instance, message, schema_type) ==
    [ type |-> "jsonschema.ValidationError", validator |-> validator,
      absolute_path |-> absolute_path, instance |-> instance, message |-> message,
      schema |-> [ type |-> schema_type ] ]

NoError == [ type |-> "None" ]

\* the bundled schema document ir-0.2.json, as the specification describes it
Ir02Document ==
    [ name |-> "ir-0.2.json", ir_version |-> StrVal(<< "0.2" >>),
      attribute_keys |-> RecognizedKeys ]

\* a schema document of another revision, whose attribute list has no
\* `finally`: a document on disk that rejects an IR the transformer produces
NarrowDocument ==
    [ name |-> "ir-0.2.json (no finally)", ir_version |-> StrVal(<< "0.2" >>),
      attribute_keys |-> RecognizedKeys \ {finally} ]

AttributesPath(i, j) ==
    << Key("workflow"), Key("agents"), Index(i - 1), Key("steps"), Index(j - 1),
       Key("attributes") >>

\* the steps of the IR, as pairs <<agent, step>> of one-based positions
StepsOf(ir) ==
    UNION { { << i, j >> : j \in DOMAIN ir.workflow.agents[i].steps } :
            i \in DOMAIN ir.workflow.agents }

FirstStep(ps) ==
    CHOOSE p \in ps : \A q \in ps : p[1] < q[1] \/ (p[1] = q[1] /\ p[2] <= q[2])

AttributesAt(ir, p) == ir.workflow.agents[p[1]].steps[p[2]].attributes

ExpectedType(key) == IF key \in NumericKeys THEN "int" ELSE "str"

JsonType(pytype) == IF pytype = "int" THEN "integer" ELSE "string"

\* repr() of the value the schema fixes for ir_version: '0.2'
VersionRepr(const) ==
    IF const.type = "str" THEN "'" \o Join(const.s) \o "'" ELSE ToString(const.n)

\* Draft202012Validator(document).validate(ir): the first violation, or NoError
FirstSchemaError(document, ir) ==
    LET unknown  == { p \in StepsOf(ir) :
                        DOMAIN AttributesAt(ir, p) \ document.attribute_keys # {} }
        mistyped == { p \in StepsOf(ir) :
                        \E k \in DOMAIN AttributesAt(ir, p) :
                            AttributesAt(ir, p)[k].type # ExpectedType(k) }
    IN  IF "ir_version" \notin DOMAIN ir
        THEN JsonschemaError("required", << >>, Instance("dict", ir),
                 << "'", "ir_version", "'", " is a required property" >>, "object")
        ELSE IF "workflow" \notin DOMAIN ir
        THEN JsonschemaError("required", << >>, Instance("dict", ir),
                 << "'", "workflow", "'", " is a required property" >>, "object")
        ELSE IF ir.ir_version # document.ir_version
        THEN JsonschemaError("const", << Key("ir_version") >>,
                 Instance(ir.ir_version.type, ir.ir_version),
                 << VersionRepr(document.ir_version), " was expected" >>, "string")
        ELSE IF unknown # {}
        THEN LET p == FirstStep(unknown)
                 k == CHOOSE x \in DOMAIN AttributesAt(ir, p) :
                          x \notin document.attribute_keys
             IN  JsonschemaError("additionalProperties", AttributesPath(p[1], p[2]),
                     Instance("dict", AttributesAt(ir, p)),
                     << "Additional properties are not allowed (", "'", Join(k), "'",
                        " was unexpected)" >>, "object")
        ELSE IF mistyped # {}
        THEN LET p == FirstStep(mistyped)
                 k == CHOOSE x \in DOMAIN AttributesAt(ir, p) :
                          AttributesAt(ir, p)[x].type # ExpectedType(x)
             IN  JsonschemaError("type", AttributesPath(p[1], p[2]) \o << Key(Join(k)) >>,
                     Instance(AttributesAt(ir, p)[k].type, AttributesAt(ir, p)[k]),
                     << "value", " is not of type ", "'", JsonType(ExpectedType(k)), "'" >>,
                     JsonType(ExpectedType(k)))
        ELSE NoError

\* ---------------------------------------------------------- source texts

AttrLineTree(text) == Tree("step_attr", << Token("ATTR", text) >>)

StepTree(name, lines) ==
    Tree("step",
         << Token("STEP_HEADER", << "-"," ","S","t","e","p",":" >>),
            Tree("step_name", << Token("NAME", name) >>) >>
         \o [ i \in DOMAIN lines |-> AttrLineTree(lines[i]) ])

AgentTree(name, steps) ==
    Tree("agent_block",
         << Tree("agent_header", << Tree("agent_name", << Token("NAME", name) >>) >>) >>
         \o steps)

DocTree(heading, blocks) ==
    Tree("start",
         << Tree("workflow",
                 << Tree("heading", << Token("HEADING", heading) >>),
                    Tree("content", blocks) >>) >>)

\* what the grammar engine makes of a source text: a parse tree, or a LarkError
Grammatical(tree) == [ grammatical |-> TRUE, tree |-> tree ]

Ungrammatical == [ grammatical |-> FALSE, tree |-> None ]

\* the source texts of the model, by name
ContentNames == { "demo", "sup2", "finally", "title_only", "invalid" }

ContentOf(name) ==
    CASE name = "demo" ->
           Grammatical(DocTree(<< "#"," ","D","e","m","o" >>,
               << AgentTree(<< " ","B","o","t" >>,
                     << StepTree(<< " ","G","r","e","e","t" >>, << << " "," ","a","r","t","i","f","a","c","t",":"," ","o","u","t",".","t","x","t" >>, << " "," ","r","e","t","r","y",":"," ","2" >> >>) >>) >>))
      [] name = "sup2" ->
           Grammatical(DocTree(<< "#"," ","D","e","m","o" >>,
               << AgentTree(<< " ","B","o","t" >>,
                     << StepTree(<< " ","G","r","e","e","t" >>, << << " "," ","r","e","t","r","y",":"," ","U+00B2" >> >>) >>) >>))
      [] name = "finally" ->
           Grammatical(DocTree(<< "#"," ","D","e","m","o" >>,
               << AgentTree(<< " ","B","o","t" >>,
                     << StepTree(<< " ","G","r","e","e","t" >>, << << " "," ","f","i","n","a","l","l","y",":"," ","c","l","e","a","n","u","p" >> >>) >>) >>))
      [] name = "title_only" ->
           Grammatical(Tree("start",
               << Tree("workflow",
                       << Tree("heading", << Token("HEADING", << "#"," ","D","e","m","o" >>) >>) >>) >>))
      [] OTHER -> Ungrammatical

\* Lark.parse(content)
LarkParse(name) ==
    IF ContentOf(name).grammatical
    THEN Returned(ContentOf(name).tree)
    ELSE Raised(Exc("LarkError", << "No terminal matches" >>, ""))

\* the files of the model: Path.read_text(encoding="utf-8")
Paths == { "demo.sf.md", "sup2.sf.md", "finally.sf.md", "invalid.sf.md",
           "nonexistent.sf.md", "locked.sf.md", "latin1.sf.md" }

ReadText(path) ==
    CASE path = "demo.sf.md"        -> Returned("demo")
      [] path = "sup2.sf.md"        -> Returned("sup2")
      [] path = "finally.sf.md"     -> Returned("finally")
      [] path = "invalid.sf.md"     -> Returned("invalid")
      [] path = "nonexistent.sf.md" ->
           Raised(Exc("FileNotFoundError", << "No such file or directory" >>, ""))
      [] path = "locked.sf.md"      ->
           Raised(Exc("PermissionError", << "Permission denied" >>, ""))
      [] OTHER ->
           Raised(Exc("UnicodeDecodeError", << "invalid start byte" >>, ""))

Sources == { "<string>", "request-7" }

\* --------------------------------------------------------- error handlers

FileFunctions == { "parse_file", "compile_file" }

CompileFunctions == { "compile_string", "compile_file" }

\* the label parse_string is given: its argument, or str(file_path)
SourceOf(c) == IF c.fn \in FileFunctions THEN c.path ELSE c.source

\* a parse_string with `except LarkError` alone
ParseStringHandlerLarkOnly(exc, source) ==
    IF exc.type = "LarkError"
    THEN ParseError(<< "Parse error in ", source, ": " >> \o exc.message, exc.type)
    ELSE exc

\* parse_string: except LarkError / except Exception
ParseStringHandler(exc, source) ==
    IF exc.type = "LarkError"
    THEN ParseError(<< "Parse error in ", source, ": " >> \o exc.message, exc.type)
    ELSE ParseError(<< "Unexpected error parsing ", source, ": " >> \o exc.message, exc.type)

\* a parse_file without its try block
ParseFileHandlerReraise(exc, path) == exc

\* parse_file: except Exception
ParseFileHandler(exc, path) ==
    ParseError(<< "Failed to read file ", path, ": " >> \o exc.message, exc.type)

\* a validate_ir without its try block
ValidateIrHandlerReraise(exc) == exc

\* validate_ir: except exceptions.ValidationError
ValidateIrHandler(exc) ==
    IF exc.type = "jsonschema.ValidationError" THEN FromJsonschemaError(exc) ELSE exc

\* what the handler of one frame makes of an exception passing through it;
\* a frame named x.try is the try block of x, any other frame has no handler
Handle(frame, exc, c) ==
    CASE frame = "parse_string.try" -> ParseStringHandler(exc, SourceOf(c))
      [] frame = "parse_file.try"   -> ParseFileHandler(exc, c.path)
      [] frame = "validate_ir.try"  -> ValidateIrHandler(exc)
      [] OTHER                      -> exc

\* the exception the caller sees: `exc` raised under `stack` (innermost last)
RECURSIVE Unwind(_, _, _)
Unwind(stack, exc, c) ==
    IF stack = << >> THEN exc
    ELSE Unwind(SubSeq(stack, 1, Len(stack) - 1), Handle(stack[Len(stack)], exc, c), c)

\* frames around file_path.read_text
ReadStack(fn) ==
    IF fn = "compile_file" THEN << "compile_file", "parse_file.try" >>
    ELSE << "parse_file.try" >>

\* frames around parser.parse and transformer.transform
ParseStack(fn) ==
    CASE fn = "parse_string"   -> << "parse_string.try" >>
      [] fn = "compile_string" -> << "compile_string", "parse_string.try" >>
      [] fn = "parse_file"     -> << "parse_file.try", "parse_string.try" >>
      [] OTHER -> << "compile_file", "parse_file.try", "parse_string.try" >>

\* frames of the caller of validate_ir
CallerStack(fn) ==
    IF fn \in CompileFunctions THEN << fn, "workflow_to_ir" >>
    ELSE IF fn = "workflow_to_ir" THEN << "workflow_to_ir" >>
    ELSE << >>

\* frames around _load_schema(): validate_ir calls it outside its try block
LoadStack(fn) == CallerStack(fn) \o << "validate_ir", "_load_schema" >>

\* a compile that lowers and validates inside the try block of parse_string
ValidateStackInsideParse(fn) ==
    CallerStack(fn) \o << "parse_string.try", "validate_ir.try" >>

\* frames around validator.validate(ir)
ValidateStack(fn) == CallerStack(fn) \o << "validate_ir.try" >>

\* a workflow_to_ir that returns the IR as built, validate_ir left out
ReturnUnvalidated == "return_ir"

\* workflow_to_ir after building the IR: validate_ir(ir), then return ir
AfterLower == "load_check"

\* ------------------------------------------------------------------ state

VARIABLES
    stepLines,        \* the attribute lines of the step given to the transformer
    lineResults,      \* _transform_step_attribute of each line
    stepResult,       \* _transform_step_body of the step
    env,              \* the schema documents on disk
    cache,            \* _SCHEMA_CACHE
    schemaReads,      \* schema documents read (json.load) by the process
    validatorsBuilt,  \* Draft202012Validator objects constructed
    calls,            \* calls started
    pc,               \* where each thread is
    call,             \* the call each thread is in
    content,          \* the source text read or given
    workflow,         \* local `workflow`
    ir,               \* local `ir`
    schema,           \* local `schema` of _load_schema
    validator,        \* local `validator` of validate_ir
    result,           \* what the call gave its caller
    thrown,           \* the exception as first raised in the call
    checked,          \* the IR validator.validate accepted in the call
    didRead,          \* the call read a schema document
    attrList,         \* the attributes of a Step, as its owner built them
    found,            \* what Step.get_attribute gave, by key
    loweredStep,      \* the mapping workflow_to_ir makes of that Step
    errorCase,        \* a schema violation handed to from_jsonschema_error
    friendly,         \* the ValidationError made of it
    tree,             \* a parse tree given to StanzaFlowTransformer.transform
    treeResult,       \* what transform made of it
    cli,              \* a run of a CLI command: its arguments, position and outcome
    disk,             \* the files the CLI run finds and leaves
    toolEnv,          \* the external renderers installed on the machine
    toolCache,        \* _MERMAID_AVAILABLE and _GRAPHVIZ_AVAILABLE
    toolLock,         \* the thread holding _CACHE_LOCK, 0 when free
    probes,           \* availability probes run, by tool
    render            \* each thread's call of generate_workflow_graph

attrVars == << stepLines, lineResults, stepResult >>

processVars == << env, cache, schemaReads, validatorsBuilt, calls >>

threadVars ==
    << pc, call, content, workflow, ir, schema, validator, result, thrown, checked, didRead >>

treeVars == << tree, treeResult >>

cliVars == << cli, disk >>

graphVars == << toolEnv, toolCache, toolLock, probes, render >>

sideVars == << treeVars, cliVars, graphVars >>

unitVars == << attrList, found, loweredStep, errorCase, friendly, sideVars >>

vars == << attrVars, processVars, threadVars, unitVars >>

Threads == 1..NumThreads

Pending == [ kind |-> "pending" ]

\* _SCHEMA_CACHE = None
NoValidator == [ id |-> 0, document |-> None ]

\* a _load_schema that never finds its cache filled
CacheAlwaysEmpty(c) == TRUE

\* `_SCHEMA_CACHE is None`
CacheIsEmpty(c) == c.id = 0

\* where the schema document can be found: "ok", "missing" (ModuleNotFoundError
\* or FileNotFoundError) or "corrupt" (the read itself fails)
Env(packaged, fallback, document) ==
    [ packaged |-> packaged, fallback |-> fallback, document |-> document ]

Envs ==
    { Env("ok", "missing", Ir02Document),
      Env("ok", "missing", NarrowDocument),
      Env("missing", "ok", Ir02Document),
      Env("missing", "missing", Ir02Document),
      Env("corrupt", "ok", Ir02Document),
      Env("missing", "corrupt", Ir02Document) }

NoCall ==
    [ fn |-> "", content |-> "", source |-> "", path |-> "", ir |-> None, workflow |-> None ]

StringCalls ==
    { [ fn |-> f, content |-> n, source |-> s, path |-> "", ir |-> None, workflow |-> None ] :
        f \in { "parse_string", "compile_string" }, n \in ContentNames, s \in Sources }

FileCalls ==
    { [ fn |-> f, content |-> "", source |-> "", path |-> p, ir |-> None, workflow |-> None ] :
        f \in FileFunctions, p \in Paths }

\* IR mappings handed to validate_ir directly
WrongVersion == LowerWorkflow(Workflow(<< "T" >>, << >>, << >>, << >>))

\* an agent whose second step holds an attribute key the schema does not list
UnknownKeyAgent ==
    Agent(<< "Bot" >>,
          << Step(<< "Greet" >>, << StepAttribute(retry, IntVal(2)) >>),
             Step(<< "Ask" >>, << StepAttribute(artifact, StrVal(<< "a.txt" >>)),
                                  StepAttribute(priority, StrVal(<< "high" >>)) >>) >>)

DirectIRs ==
    { LowerWorkflow(Workflow(<< "T" >>, << >>, << >>, << >>)),
      [ workflow |-> [ title |-> << "T" >>, agents |-> << >> ] ],
      [ ir_version |-> StrVal(<< "0.2" >>) ],
      [ WrongVersion EXCEPT !.ir_version = StrVal(<< "0.1" >>) ],
      [ WrongVersion EXCEPT !.ir_version = StrVal(<< >>) ],
      [ WrongVersion EXCEPT !.ir_version = IntVal(2) ],
      [ WrongVersion EXCEPT !.ir_version = IntVal(0) ],
      LowerWorkflow(Workflow(<< "T" >>, << UnknownKeyAgent >>, << >>, << >>)),
      LowerWorkflow(Workflow(<< "T" >>, << Agent(<< "Idle" >>, << >>), UnknownKeyAgent >>,
                             << >>, << >>)) }

ValidateCalls ==
    { [ fn |-> "validate_ir", content |-> "", source |-> "", path |-> "", ir |-> i, workflow |-> None ] :
        i \in DirectIRs }

AllCalls == StringCalls \cup FileCalls \cup ValidateCalls

EntryPc(fn) ==
    IF fn \in FileFunctions THEN "read"
    ELSE IF fn = "validate_ir" THEN "load_check"
    ELSE IF fn = "workflow_to_ir" THEN "lower"
    ELSE "parse"

ProcessInit ==
    /\ cache = NoValidator
    /\ schemaReads = 0
    /\ validatorsBuilt = 0
    /\ calls = 0
    /\ pc = [ t \in Threads |-> "idle" ]
    /\ call = [ t \in Threads |-> NoCall ]
    /\ content = [ t \in Threads |-> "" ]
    /\ workflow = [ t \in Threads |-> None ]
    /\ ir = [ t \in Threads |-> None ]
    /\ schema = [ t \in Threads |-> None ]
    /\ validator = [ t \in Threads |-> NoValidator ]
    /\ result = [ t \in Threads |-> Pending ]
    /\ thrown = [ t \in Threads |-> NoError ]
    /\ checked = [ t \in Threads |-> None ]
    /\ didRead = [ t \in Threads |-> FALSE ]

\* ---------------------------------------------------------------- actions

\* a thread enters one of `callset`
Start(t, callset) ==
    /\ pc[t] = "idle"
    /\ calls < MaxCalls
    /\ \E c \in callset :
        /\ call' = [call EXCEPT ![t] = c]
        /\ pc' = [pc EXCEPT ![t] = EntryPc(c.fn)]
        /\ content' = [content EXCEPT ![t] = c.content]
        /\ ir' = [ir EXCEPT ![t] = c.ir]
        /\ workflow' = [workflow EXCEPT ![t] = c.workflow]
    /\ calls' = calls + 1
    /\ UNCHANGED << attrVars, unitVars, env, cache, schemaReads, validatorsBuilt,
                    schema, validator, result, thrown, checked, didRead >>

\* an exception raised under `stack` leaves the call
Throw(t, stack, exc) ==
    /\ result' = [result EXCEPT ![t] = Raised(Unwind(stack, exc, call[t]))]
    /\ thrown' = [thrown EXCEPT ![t] = exc]
    /\ pc' = [pc EXCEPT ![t] = "done"]

\* parse_file: content = file_path.read_text(encoding="utf-8")
ReadFile(t) ==
    /\ pc[t] = "read"
    /\ IF ReadText(call[t].path).kind = "raise"
       THEN /\ Throw(t, ReadStack(call[t].fn), ReadText(call[t].path).exc)
            /\ UNCHANGED content
       ELSE /\ content' = [content EXCEPT ![t] = ReadText(call[t].path).value]
            /\ pc' = [pc EXCEPT ![t] = "parse"]
            /\ UNCHANGED << result, thrown >>
    /\ UNCHANGED << attrVars, unitVars, processVars, call, workflow, ir, schema, validator,
                    checked, didRead >>

\* an exception leaving transformer.transform(tree), as an exception object
TransformOutcome(r) ==
    IF r.kind = "raise" THEN Raised(Exc(r.exc, << "error in transform" >>, "")) ELSE r

\* parser.parse(content), then transformer.transform(tree)
ParseOutcome(name) ==
    IF LarkParse(name).kind = "raise" THEN LarkParse(name)
    ELSE Only({ TransformOutcome(r) : r \in { Transform(LarkParse(name).value) } })

\* parse_string
Parse(t) ==
    /\ pc[t] = "parse"
    /\ \E parsed \in { ParseOutcome(content[t]) } :
        IF parsed.kind = "raise"
        THEN /\ Throw(t, ParseStack(call[t].fn), parsed.exc)
             /\ UNCHANGED workflow
        ELSE /\ workflow' = [workflow EXCEPT ![t] = parsed.value]
             /\ UNCHANGED thrown
             /\ IF call[t].fn \in CompileFunctions
                THEN /\ pc' = [pc EXCEPT ![t] = "lower"]
                     /\ UNCHANGED result
                ELSE /\ pc' = [pc EXCEPT ![t] = "done"]
                     /\ result' = [result EXCEPT ![t] = Returned(parsed.value)]
    /\ UNCHANGED << attrVars, unitVars, processVars, call, content, ir, schema, validator,
                    checked, didRead >>

\* workflow_to_ir: the IR is built
Lower(t) ==
    /\ pc[t] = "lower"
    /\ ir' = [ir EXCEPT ![t] = LowerWorkflow(workflow[t])]
    /\ pc' = [pc EXCEPT ![t] = AfterLower]
    /\ UNCHANGED << attrVars, unitVars, processVars, call, content, workflow, schema, validator,
                    result, thrown, checked, didRead >>

\* a _load_schema whose caller skips validation once the cache is filled
LoadCheckSkipsWhenCached(t) ==
    /\ pc[t] = "load_check"
    /\ pc' = [pc EXCEPT ![t] = IF CacheIsEmpty(cache) THEN "load_packaged" ELSE "return_ir"]
    /\ UNCHANGED << attrVars, unitVars, processVars, call, content, workflow, ir, schema, validator,
                    result, thrown, checked, didRead >>

\* _load_schema: if _SCHEMA_CACHE is None
LoadCheck(t) ==
    /\ pc[t] = "load_check"
    /\ pc' = [pc EXCEPT ![t] = IF CacheIsEmpty(cache) THEN "load_packaged" ELSE "load_return"]
    /\ UNCHANGED << attrVars, unitVars, processVars, call, content, workflow, ir, schema, validator,
                    result, thrown, checked, didRead >>

\* a _load_schema that caches a validator over what it read before the read failed
LoadPackagedKeepsPartial(t) ==
    /\ pc[t] = "load_packaged"
    /\ IF env.packaged = "ok"
       THEN /\ schema' = [schema EXCEPT ![t] = env.document]
            /\ schemaReads' = schemaReads + 1
            /\ didRead' = [didRead EXCEPT ![t] = TRUE]
            /\ pc' = [pc EXCEPT ![t] = "load_build"]
            /\ UNCHANGED << result, thrown, cache, validatorsBuilt >>
       ELSE IF env.packaged = "missing"
       THEN /\ pc' = [pc EXCEPT ![t] = "load_fallback"]
            /\ UNCHANGED << schema, schemaReads, didRead, result, thrown, cache,
                            validatorsBuilt >>
       ELSE /\ Throw(t, LoadStack(call[t].fn),
                     Exc("JSONDecodeError", << "Expecting value" >>, ""))
            /\ cache' = [ id |-> validatorsBuilt + 1, document |-> NarrowDocument ]
            /\ validatorsBuilt' = validatorsBuilt + 1
            /\ UNCHANGED << schema, schemaReads, didRead >>
    /\ UNCHANGED << attrVars, unitVars, env, calls, call, content, workflow,
                    ir, validator, checked >>

\* _load_schema: the packaged resource is opened and json.load reads it
LoadPackaged(t) ==
    /\ pc[t] = "load_packaged"
    /\ IF env.packaged = "ok"
       THEN /\ schema' = [schema EXCEPT ![t] = env.document]
            /\ schemaReads' = schemaReads + 1
            /\ didRead' = [didRead EXCEPT ![t] = TRUE]
            /\ pc' = [pc EXCEPT ![t] = "load_build"]
            /\ UNCHANGED << result, thrown >>
       ELSE IF env.packaged = "missing"
       THEN /\ pc' = [pc EXCEPT ![t] = "load_fallback"]
            /\ UNCHANGED << schema, schemaReads, didRead, result, thrown >>
       ELSE /\ Throw(t, LoadStack(call[t].fn),
                     Exc("JSONDecodeError", << "Expecting value" >>, ""))
            /\ UNCHANGED << schema, schemaReads, didRead >>
    /\ UNCHANGED << attrVars, unitVars, env, cache, validatorsBuilt, calls, call, content, workflow,
                    ir, validator, checked >>

\* _load_schema: except (ModuleNotFoundError, FileNotFoundError): the fallback path
LoadFallback(t) ==
    /\ pc[t] = "load_fallback"
    /\ IF env.fallback = "missing"
       THEN /\ Throw(t, LoadStack(call[t].fn),
                     Exc("FileNotFoundError",
                         << "Could not locate ir-0.2.json schema. ",
                            "This indicates a packaging issue." >>, ""))
            /\ UNCHANGED << schema, schemaReads, didRead >>
       ELSE IF env.fallback = "corrupt"
       THEN /\ Throw(t, LoadStack(call[t].fn),
                     Exc("JSONDecodeError", << "Expecting value" >>, ""))
            /\ UNCHANGED << schema, schemaReads, didRead >>
       ELSE /\ schema' = [schema EXCEPT ![t] = env.document]
            /\ schemaReads' = schemaReads + 1
            /\ didRead' = [didRead EXCEPT ![t] = TRUE]
            /\ pc' = [pc EXCEPT ![t] = "load_build"]
            /\ UNCHANGED << result, thrown >>
    /\ UNCHANGED << attrVars, unitVars, env, cache, validatorsBuilt, calls, call, content, workflow,
                    ir, validator, checked >>

\* _load_schema: _SCHEMA_CACHE = Draft202012Validator(schema)
LoadBuild(t) ==
    /\ pc[t] = "load_build"
    /\ cache' = [ id |-> validatorsBuilt + 1, document |-> schema[t] ]
    /\ validatorsBuilt' = validatorsBuilt + 1
    /\ pc' = [pc EXCEPT ![t] = "load_return"]
    /\ UNCHANGED << attrVars, unitVars, env, schemaReads, calls, call, content, workflow, ir, schema,
                    validator, result, thrown, checked, didRead >>

\* _load_schema: return _SCHEMA_CACHE; validate_ir: validator = _load_schema()
LoadReturn(t) ==
    /\ pc[t] = "load_return"
    /\ validator' = [validator EXCEPT ![t] = cache]
    /\ pc' = [pc EXCEPT ![t] = "validate"]
    /\ UNCHANGED << attrVars, unitVars, processVars, call, content, workflow, ir, schema,
                    result, thrown, checked, didRead >>

\* validate_ir: validator.validate(ir)
Validate(t) ==
    /\ pc[t] = "validate"
    /\ IF FirstSchemaError(validator[t].document, ir[t]) # NoError
       THEN /\ Throw(t, ValidateStack(call[t].fn),
                     FirstSchemaError(validator[t].document, ir[t]))
            /\ UNCHANGED checked
       ELSE /\ checked' = [checked EXCEPT ![t] = ir[t]]
            /\ UNCHANGED thrown
            /\ IF call[t].fn = "validate_ir"
               THEN /\ pc' = [pc EXCEPT ![t] = "done"]
                    /\ result' = [result EXCEPT ![t] = Returned(None)]
               ELSE /\ pc' = [pc EXCEPT ![t] = "return_ir"]
                    /\ UNCHANGED result
    /\ UNCHANGED << attrVars, unitVars, processVars, call, content, workflow, ir, schema, validator,
                    didRead >>

\* workflow_to_ir: return ir
ReturnIr(t) ==
    /\ pc[t] = "return_ir"
    /\ result' = [result EXCEPT ![t] = Returned(ir[t])]
    /\ pc' = [pc EXCEPT ![t] = "done"]
    /\ UNCHANGED << attrVars, unitVars, processVars, call, content, workflow, ir, schema, validator,
                    thrown, checked, didRead >>

\* the caller has the outcome; the frame is gone
Finish(t) ==
    /\ pc[t] = "done"
    /\ pc' = [pc EXCEPT ![t] = "idle"]
    /\ call' = [call EXCEPT ![t] = NoCall]
    /\ content' = [content EXCEPT ![t] = ""]
    /\ workflow' = [workflow EXCEPT ![t] = None]
    /\ ir' = [ir EXCEPT ![t] = None]
    /\ schema' = [schema EXCEPT ![t] = None]
    /\ validator' = [validator EXCEPT ![t] = NoValidator]
    /\ result' = [result EXCEPT ![t] = Pending]
    /\ thrown' = [thrown EXCEPT ![t] = NoError]
    /\ checked' = [checked EXCEPT ![t] = None]
    /\ didRead' = [didRead EXCEPT ![t] = FALSE]
    /\ UNCHANGED << attrVars, unitVars, processVars >>

\* no other thread is inside a call
Alone(t) == \A u \in Threads \ {t} : pc[u] = "idle"

\* ------------------------------------------------------ attribute lines

\* an attribute line by its parts: lead key gap1 sep gap2 value trail
LinePart(key, gap1, sep, gap2, value, pad) ==
    [ lead |-> pad[1], key |-> key, gap1 |-> gap1, sep |-> sep, gap2 |-> gap2,
      value |-> value, trail |-> pad[2] ]

\* the text of the line, as the ATTR token carries it
LineText(p) == p.lead \o p.key \o p.gap1 \o p.sep \o p.gap2 \o p.value \o p.trail

\* the recognized keys in three letter cases, a key the dialect does not know,
\* no key at all, and a key with a character that is no letter or underscore
KeyTexts ==
    UNION { { k, StrUpper(k), Capitalize(k) } : k \in RecognizedKeys }
    \cup { priority, << >>, << "o","n","-","e","r","r","o","r" >> }

Gaps == { << >>, << " " >>, << " ", "\t" >> }

Seps == { << ":" >>, << >> }

\* value texts, none with white space at either end
ValueTexts ==
    { << "2" >>, << "4","5" >>, << "0","0","7" >>, << "a","b","c" >>,
      << "1","2",".","5" >>, << "-","1" >>, << "U+00B2" >>, << "U+0663" >>,
      << "2","U+00B2" >>, << "o","u","t",".","t","x","t" >>, << "a"," ","b" >>,
      << "a",":","b" >>, << >> }

Pads == { << << >>, << >> >>, << << " "," " >>, << " " >> >> }

Lines ==
    { LinePart(k, g1, c, g2, v, pad) :
        k \in KeyTexts, g1 \in Gaps, c \in Seps, g2 \in Gaps, v \in ValueTexts, pad \in Pads }

Plain(key, value) == LinePart(key, << >>, << ":" >>, << " " >>, value, << << " "," " >>, << >> >>)

\* the lines that steps of several lines are made of
BodyLines ==
    { Plain(artifact, << "o","u","t",".","t","x","t" >>),
      Plain(retry, << "2" >>),
      Plain(retry, << "a","b","c" >>),
      Plain(priority, << "h","i","g","h" >>),
      Plain(StrUpper(artifact), << "b",".","m","d" >>),
      Plain(timeout, << "U+00B2" >>),
      LinePart(<< >>, << >>, << >>, << >>, << "s","o","m","e"," ","t","e","x","t" >>,
               << << " "," " >>, << >> >>) }

\* the attribute lines of a step: one line of any kind, or up to MaxAttrs body lines
StepBodies ==
    { << l >> : l \in Lines }
    \cup UNION { [ 1..n -> BodyLines ] : n \in (0..MaxAttrs) \ {1} }

Texts(lines) == [ i \in DOMAIN lines |-> LineText(lines[i]) ]

StepNamed == << " ","G","r","e","e","t" >>

\* _transform_step_attribute is applied to each attribute line
TransformAttributes ==
    /\ lineResults.kind = "pending"
    /\ lineResults' =
         [ kind |-> "results",
           each |-> [ i \in DOMAIN stepLines |->
                        TransformStepAttribute(AttrLineTree(LineText(stepLines[i]))) ] ]
    /\ UNCHANGED << stepLines, stepResult, processVars, threadVars, unitVars >>

\* _transform_step_body is applied to the step
TransformBody ==
    /\ stepResult.kind = "pending"
    /\ stepResult' = TransformStepBody(StepTree(StepNamed, Texts(stepLines)))
    /\ UNCHANGED << stepLines, lineResults, processVars, threadVars, unitVars >>

\* ---------------------------------------------------- specifications

AttrIdle ==
    /\ stepLines = << >>
    /\ lineResults = Pending
    /\ stepResult = Pending

\* no tree is given to the transformer by itself
TreeIdle ==
    /\ tree = None
    /\ treeResult = Pending

\* no CLI command runs
CliIdle ==
    /\ cli = Pending
    /\ disk = {}

\* _MERMAID_AVAILABLE = None, _GRAPHVIZ_AVAILABLE = None
NoToolCache == [ mmdc |-> "None", dot |-> "None" ]

\* no graph is rendered
GraphIdle ==
    /\ toolEnv = None
    /\ toolCache = NoToolCache
    /\ toolLock = 0
    /\ probes = [ mmdc |-> 0, dot |-> 0 ]
    /\ render = [ t \in Threads |-> Pending ]

SideIdle == TreeIdle /\ CliIdle /\ GraphIdle

\* no Step is looked into and no schema violation is at hand
UnitIdle ==
    /\ attrList = << >>
    /\ found = Pending
    /\ loweredStep = Pending
    /\ errorCase = Pending
    /\ friendly = Pending
    /\ SideIdle

Init == AttrIdle /\ UnitIdle /\ env \in Envs /\ ProcessInit

\* the calls of the process run one at a time
Next ==
    \/ \E t \in Threads : Alone(t) /\ Start(t, AllCalls)
    \/ \E t \in Threads : Alone(t) /\ ReadFile(t)
    \/ \E t \in Threads : Alone(t) /\ Parse(t)
    \/ \E t \in Threads : Alone(t) /\ Lower(t)
    \/ \E t \in Threads : Alone(t) /\ LoadCheck(t)
    \/ \E t \in Threads : Alone(t) /\ LoadPackaged(t)
    \/ \E t \in Threads : Alone(t) /\ LoadFallback(t)
    \/ \E t \in Threads : Alone(t) /\ LoadBuild(t)
    \/ \E t \in Threads : Alone(t) /\ LoadReturn(t)
    \/ \E t \in Threads : Alone(t) /\ Validate(t)
    \/ \E t \in Threads : Alone(t) /\ ReturnIr(t)
    \/ \E t \in Threads : Alone(t) /\ Finish(t)

Spec == Init /\ [][Next]_vars

\* threads call validate_ir concurrently
NextConc ==
    \/ \E t \in Threads : Start(t, ValidateCalls)
    \/ \E t \in Threads : LoadCheck(t)
    \/ \E t \in Threads : LoadPackaged(t)
    \/ \E t \in Threads : LoadFallback(t)
    \/ \E t \in Threads : LoadBuild(t)
    \/ \E t \in Threads : LoadReturn(t)
    \/ \E t \in Threads : Validate(t)
    \/ \E t \in Threads : Finish(t)

SpecConc == Init /\ [][NextConc]_vars

\* the transformer on the attribute lines of one step
InitAttr ==
    /\ stepLines \in StepBodies
    /\ lineResults = Pending
    /\ stepResult = Pending
    /\ UnitIdle
    /\ env = Env("ok", "missing", Ir02Document)
    /\ ProcessInit

NextAttr == TransformAttributes \/ TransformBody

SpecAttr == InitAttr /\ [][NextAttr]_vars

\* ------------------------------------------------------- a Step by itself

\* Step.get_attribute: next((attr for attr in self.attributes if attr.key == key), None)
GetAttribute(attributes, key) ==
    IF \A i \in DOMAIN attributes : attributes[i].key # key THEN None
    ELSE attributes[Min({ i \in DOMAIN attributes : attributes[i].key = key })]

\* attributes a Step can hold: the dataclass takes any key
Attributes ==
    { StepAttribute(artifact, StrVal(<< "a",".","t","x","t" >>)),
      StepAttribute(artifact, StrVal(<< "b",".","t","x","t" >>)),
      StepAttribute(retry, IntVal(1)),
      StepAttribute(retry, IntVal(2)),
      StepAttribute(finally, StrVal(<< "d","o","n","e" >>)),
      StepAttribute(priority, StrVal(<< "h","i","g","h" >>)) }

AttrLists == UNION { [ 1..n -> Attributes ] : n \in 0..(MaxAttrs + 1) }

ProbeKeys == { artifact, retry, finally, priority, timeout }

\* step.get_attribute(key) is called
LookUp ==
    /\ found.kind = "pending"
    /\ \E k \in ProbeKeys :
        found' = [ kind |-> "found", key |-> k, attr |-> GetAttribute(attrList, k) ]
    /\ UNCHANGED << attrList, loweredStep, errorCase, friendly, sideVars,
                    attrVars, processVars, threadVars >>

\* workflow_to_ir makes the mapping of the step
LowerTheStep ==
    /\ loweredStep.kind = "pending"
    /\ loweredStep' = [ kind |-> "lowered", step |-> LowerStep(Step(StepNamed, attrList)) ]
    /\ UNCHANGED << attrList, found, errorCase, friendly, sideVars,
                    attrVars, processVars, threadVars >>

InitStep ==
    /\ attrList \in AttrLists
    /\ found = Pending
    /\ loweredStep = Pending
    /\ errorCase = Pending
    /\ friendly = Pending
    /\ SideIdle
    /\ AttrIdle
    /\ env = Env("ok", "missing", Ir02Document)
    /\ ProcessInit

NextStep == LookUp \/ LowerTheStep

SpecStep == InitStep /\ [][NextStep]_vars

\* --------------------------------------------- workflow_to_ir by itself

\* the agents of the workflows given to workflow_to_ir: one without steps,
\* one of two steps with a key twice, one with a key of no recognized name
GivenAgents ==
    { Agent(<< "I","d","l","e" >>, << >>),
      Agent(<< "B","o","t" >>,
            << Step(<< "G","r","e","e","t" >>,
                    << StepAttribute(retry, IntVal(1)), StepAttribute(retry, IntVal(2)) >>),
               Step(<< "A","s","k" >>, << >>) >>),
      Agent(<< "H","u","m","a","n" >>,
            << Step(<< "R","e","v","i","e","w" >>,
                    << StepAttribute(priority, StrVal(<< "h","i","g","h" >>)) >>) >>) }

GivenEscapes ==
    { EscapeBlock(<< "l","a","n","g","g","r","a","p","h" >>, << "x"," ","=","\n"," ","1" >>),
      EscapeBlock(<< >>, << >>) }

GivenSecrets ==
    { << >>,
      << SecretBlock(<< "K","E","Y" >>), SecretBlock(<< "T","O","K","E","N" >>) >>,
      << SecretBlock(<< "T","O","K","E","N" >>), SecretBlock(<< "K","E","Y" >>) >> }

\* well-formed Workflow values, as a caller of workflow_to_ir can build them
Workflows ==
    { Workflow(title, agents, escapes, secrets) :
        title \in { << >>, << "D","e","m","o" >> },
        agents \in UNION { [ 1..n -> GivenAgents ] : n \in 0..MaxBlocks },
        escapes \in UNION { [ 1..n -> GivenEscapes ] : n \in 0..MaxBlocks },
        secrets \in GivenSecrets }

LowerCalls ==
    { [ fn |-> "workflow_to_ir", content |-> "", source |-> "", path |-> "", ir |-> None,
        workflow |-> w ] : w \in Workflows }

\* calls of workflow_to_ir, one at a time
NextLower ==
    \/ \E t \in Threads : Alone(t) /\ Start(t, LowerCalls)
    \/ \E t \in Threads : Alone(t) /\ Lower(t)
    \/ \E t \in Threads : Alone(t) /\ LoadCheck(t)
    \/ \E t \in Threads : Alone(t) /\ LoadPackaged(t)
    \/ \E t \in Threads : Alone(t) /\ LoadFallback(t)
    \/ \E t \in Threads : Alone(t) /\ LoadBuild(t)
    \/ \E t \in Threads : Alone(t) /\ LoadReturn(t)
    \/ \E t \in Threads : Alone(t) /\ Validate(t)
    \/ \E t \in Threads : Alone(t) /\ ReturnIr(t)
    \/ \E t \in Threads : Alone(t) /\ Finish(t)

SpecLower == Init /\ [][NextLower]_vars

\* ------------------------------------------- from_jsonschema_error by itself

\* parts of an absolute path in any order, up to this many
MaxPath == 3

PathParts == { Key("workflow"), Key("agents"), Key(""), Index(0), Index(1) }

\* every path of up to MaxPath parts, and the paths into the first steps
ErrorPaths ==
    UNION { [ 1..n -> PathParts ] : n \in 0..MaxPath }
    \cup { SubSeq(AttributesPath(i, 1), 1, n) : i \in 1..2, n \in 4..6 }

\* a violation without its path: kind, offending value, validator's message
\* and the subschema that failed
Violation(keyword, instance, message, subschema) ==
    [ validator |-> keyword, instance |-> instance, message |-> message,
      schema |-> subschema ]

Violations ==
    { Violation("required", Instance("dict", None),
                << "'", "title", "'", " is a required property" >>, [ type |-> "object" ]),
      Violation("required", Instance("dict", None),
                << "'", "env_var", "'", " is a required property" >>, [ type |-> "object" ]),
      Violation("required", Instance("dict", None),
                << "a property is missing" >>, [ type |-> "object" ]),
      Violation("type", Instance("int", IntVal(3)),
                << "3", " is not of type ", "'", "string", "'" >>, [ type |-> "string" ]),
      Violation("type", Instance("str", StrVal(<< "x" >>)),
                << "'", "x", "'", " is not of type ", "'", "integer", "'" >>,
                [ type |-> "integer" ]),
      Violation("type", Instance("NoneType", None),
                << "None", " is not of type ", "'", "array", "'" >>,
                [ description |-> "a list" ]),
      Violation("enum", Instance("str", StrVal(<< "x" >>)),
                << "'", "x", "'", " is not one of ", "['a', 1, 'b']" >>,
                [ enum |-> << StrVal(<< "a" >>), IntVal(1), StrVal(<< "b" >>) >> ]),
      Violation("enum", Instance("int", IntVal(3)),
                << "3", " is not one of ", "['0.2']" >>,
                [ type |-> "string", enum |-> << StrVal(<< "0.2" >>) >> ]),
      Violation("enum", Instance("int", IntVal(3)),
                << "3", " is not one of ", "[]" >>, [ enum |-> << >> ]),
      Violation("enum", Instance("int", IntVal(3)),
                << "3", " is not one of ", "[]" >>, [ type |-> "string" ]),
      Violation("const", Instance("str", StrVal(<< "0.1" >>)),
                << "'0.2'", " was expected" >>, [ const |-> StrVal(<< "0.2" >>) ]),
      Violation("additionalProperties", Instance("dict", None),
                << "Additional properties are not allowed (", "'", "priority", "'",
                   " was unexpected)" >>, [ type |-> "object" ]),
      Violation("minLength", Instance("str", StrVal(<< >>)),
                << "''", " is too short" >>, [ type |-> "string", minLength |-> 1 ]) }

\* the errors given to from_jsonschema_error
ErrorCases ==
    { [ type |-> "jsonschema.ValidationError", validator |-> v.validator,
        absolute_path |-> p, instance |-> v.instance, message |-> v.message,
        schema |-> v.schema ] : v \in Violations, p \in ErrorPaths }

\* ValidationError.from_jsonschema_error(error)
Convert ==
    /\ friendly.kind = "pending"
    /\ friendly' = [ kind |-> "built", exc |-> FromJsonschemaError(errorCase) ]
    /\ UNCHANGED << attrList, found, loweredStep, errorCase, sideVars, attrVars, processVars,
                    threadVars >>

InitError ==
    /\ errorCase \in ErrorCases
    /\ friendly = Pending
    /\ attrList = << >>
    /\ found = Pending
    /\ loweredStep = Pending
    /\ SideIdle
    /\ AttrIdle
    /\ env = Env("ok", "missing", Ir02Document)
    /\ ProcessInit

NextError == Convert

SpecError == InitError /\ [][NextError]_vars

\* ------------------------------------------------------- compiling twice

\* the compile calls: a text handed over, or read from a file
CompileCalls == { c \in StringCalls \cup FileCalls : c.fn \in CompileFunctions }

\* no other call is running; a finished call may still hold its outcome
Sequential(t) == \A u \in Threads \ {t} : pc[u] \in { "idle", "done" }

\* compiles one after the other, the outcome of one kept while the next runs
NextTwice ==
    \/ \E t \in Threads : Sequential(t) /\ Start(t, CompileCalls)
    \/ \E t \in Threads : Sequential(t) /\ ReadFile(t)
    \/ \E t \in Threads : Sequential(t) /\ Parse(t)
    \/ \E t \in Threads : Sequential(t) /\ Lower(t)
    \/ \E t \in Threads : Sequential(t) /\ LoadCheck(t)
    \/ \E t \in Threads : Sequential(t) /\ LoadPackaged(t)
    \/ \E t \in Threads : Sequential(t) /\ LoadFallback(t)
    \/ \E t \in Threads : Sequential(t) /\ LoadBuild(t)
    \/ \E t \in Threads : Sequential(t) /\ LoadReturn(t)
    \/ \E t \in Threads : Sequential(t) /\ Validate(t)
    \/ \E t \in Threads : Sequential(t) /\ ReturnIr(t)
    \/ \E t \in Threads : Sequential(t) /\ Finish(t)

SpecTwice == Init /\ [][NextTwice]_vars

\* ------------------------------------------------ the transformer by itself

\* heading children of the workflow tree: none, one, two, one without its
\* token, one with two tokens
HeadingLists ==
    { << >>,
      << Tree("heading", << Token("HEADING", << "#"," ","D","e","m","o","\n" >>) >>) >>,
      << Tree("heading", << Token("HEADING", << "#"," ","D","e","m","o","\n" >>) >>),
         Tree("heading", << Token("HEADING", << "#","#"," ","E","n","d" >>) >>) >>,
      << Tree("heading", << >>) >>,
      << Tree("heading", << Token("HEADING", << "#"," ","D","e","m","o" >>),
                            Token("HEADING", << "#"," ","E","n","d" >>) >>) >> }

StepHeader == Token("STEP_HEADER", << "-"," ","S","t","e","p",":" >>)

Greet == StepTree(<< " ","G","r","e","e","t" >>, << >>)

Ask ==
    StepTree(<< " ","A","s","k"," " >>,
             << << " "," ","r","e","t","r","y",":"," ","2" >>,
                << " "," ","p","r","i","o","r","i","t","y",":"," ","h","i","g","h" >> >>)

\* step productions: with a name subtree, with attribute lines, with a name
\* token, with an empty name subtree, with an attribute line where the name
\* should be, with the header alone, with no children
StepTrees ==
    { Greet, Ask,
      Tree("step", << StepHeader, Token("NAME", << " ","S","a","y" >>) >>),
      Tree("step", << StepHeader, Tree("step_name", << >>) >>),
      Tree("step", << StepHeader,
                      AttrLineTree(<< "b","r","a","n","c","h",":"," ","x" >>) >>),
      Tree("step", << StepHeader >>),
      Tree("step", << >>) }

AgentHeader(name) == Tree("agent_header", << Tree("agent_name", << Token("NAME", name) >>) >>)

\* agent productions: no steps, one step of each kind, two and three steps in
\* either order, a header without a name, a token where the header should
\* be, no children
AgentTrees ==
    { Tree("agent_block", << AgentHeader(<< " ","B","o","t" >>) >> \o steps) :
        steps \in { << >>, << Greet, Ask >>, << Ask, Greet >>, << Ask, Greet, Ask >> }
                  \cup { << s >> : s \in StepTrees } }
    \cup { Tree("agent_block", << Tree("agent_header", << >>),
                                  StepTree(<< " ","G","r","e","e","t" >>, << >>) >>),
           Tree("agent_block", << Token("AGENT", << "#","#" >>),
                                  StepTree(<< " ","G","r","e","e","t" >>, << >>) >>),
           Tree("agent_block", << >>) }

\* escape productions: the target in a subtree and a body with blank lines
\* around it and inside it; the target as a token; neither target nor body
EscapeTrees ==
    { Tree("escape_block",
           << Tree("escape_target", << Token("NAME", << " ","l","a","n","g" >>) >>),
              Token("CODE_BLOCK", << "\n"," "," ","a"," ","=","\n","\n","\t","b"," ","\n" >>) >>),
      Tree("escape_block",
           << Token("escape_target", << "p","f" >>), Token("CODE_BLOCK", << "x" >>) >>),
      Tree("escape_block", << >>) }

SecretTrees ==
    { Tree("secret_block", << Token("ENV_VAR", << "K","E","Y" >>) >>),
      Tree("secret_block", << Token("ENV_VAR", << " ","T","O","K","E","N","\n" >>) >>),
      Tree("secret_block", << >>) }

\* the blocks a content subtree is made of, and a token among them
Blocks ==
    AgentTrees \cup EscapeTrees \cup SecretTrees \cup { Token("NEWLINE", << "\n" >>) }

\* parse trees: a workflow subtree under start with every heading list and
\* every content of up to MaxBlocks blocks, the workflow subtree by itself,
\* and start trees without one
Trees ==
    { Tree("start", << Tree("workflow", h \o << Tree("content", b) >>) >>) :
        h \in HeadingLists, b \in UNION { [ 1..n -> Blocks ] : n \in 0..MaxBlocks } }
    \cup { Tree("workflow", h) : h \in HeadingLists }
    \cup { Tree("start", << Token("NEWLINE", << "\n" >>) >>), Tree("start", << >>) }

\* StanzaFlowTransformer.transform(tree)
TransformTree ==
    /\ treeResult.kind = "pending"
    /\ treeResult' = Transform(tree)
    /\ UNCHANGED << tree, cliVars, graphVars, attrList, found, loweredStep, errorCase,
                    friendly, attrVars, processVars, threadVars >>

InitTree ==
    /\ tree \in Trees
    /\ treeResult = Pending
    /\ CliIdle
    /\ GraphIdle
    /\ attrList = << >>
    /\ found = Pending
    /\ loweredStep = Pending
    /\ errorCase = Pending
    /\ friendly = Pending
    /\ AttrIdle
    /\ env = Env("ok", "missing", Ir02Document)
    /\ ProcessInit

NextTree == TransformTree

SpecTree == InitTree /\ [][NextTree]_vars

\* ------------------------------------------------------- the command line

\* a pathlib.Path: the directory, the name up to its last dot, the suffix
PurePath(dir, stem, suffix) == [ dir |-> dir, stem |-> stem, suffix |-> suffix ]

\* `output` when the option is not given
NoPath == PurePath("", "", "")

\* Path.with_suffix
WithSuffix(p, suffix) == [ p EXCEPT !.suffix = suffix ]

\* the workflow file given to the commands
SourceFile == PurePath(".", "demo.sf", ".md")

\* a file on the disk: `content` is "source" for the workflow file, "old" for
\* a file that was there before the command ran, "new" for what it wrote
File(p, c) == [ path |-> p, content |-> c ]

\* Path.exists
Exists(files, p) == \E f \in files : f.path = p

\* the disk after p has been written
Written(files, p) == { f \in files : f.path # p } \cup { File(p, "new") }

\* the disk after Path.rename(src, dst) has replaced dst
Renamed(files, src, dst) ==
    { f \in files : f.path # src /\ f.path # dst } \cup { File(dst, "new") }

\* _assert_safe_output: TRUE when it returns, FALSE when it raises typer.Exit(1)
AssertSafeOutput(files, p, force) == ~ (Exists(files, p) /\ ~ force)

\* validate_secrets: the env_var of every secret block that has one and is
\* not in os.environ, in the order of the blocks
RECURSIVE ValidateSecrets(_, _)
ValidateSecrets(secret_blocks, environ) ==
    IF secret_blocks = << >> THEN << >>
    ELSE (IF Head(secret_blocks).env_var # << >>
             /\ Head(secret_blocks).env_var \notin environ
          THEN << Head(secret_blocks).env_var >> ELSE << >>)
         \o ValidateSecrets(Tail(secret_blocks), environ)

parallel == << "p","a","r","a","l","l","e","l" >>

\* the feature a step attribute key asks for
FeatureOfKey(key) ==
    CASE key = artifact -> { "artifacts" }
      [] key = retry    -> { "retry" }
      [] key = timeout  -> { "timeout" }
      [] key = branch   -> { "branch" }
      [] key = parallel -> { "parallel" }
      [] OTHER          -> { }

\* Adapter.get_required_features
GetRequiredFeatures(an_ir) ==
    (IF an_ir.workflow.agents # << >> THEN { "agents" } ELSE { })
    \cup (IF StepsOf(an_ir) # { } THEN { "steps" } ELSE { })
    \cup UNION { FeatureOfKey(k) :
                 k \in UNION { DOMAIN AttributesAt(an_ir, p) : p \in StepsOf(an_ir) } }
    \cup (IF an_ir.workflow.secrets # << >> THEN { "secrets" } ELSE { })
    \cup (IF an_ir.workflow.escape_blocks # << >> THEN { "ai_escape" } ELSE { })

\* LangGraphAdapter.capabilities
LangGraphCapabilities == { "agents", "steps", "artifacts", "retry", "timeout", "secrets" }

\* _ADAPTERS: the registry, each adapter by its capabilities
ADAPTERS == [ langgraph |-> LangGraphCapabilities ]

\* get_adapter
GetAdapter(name) ==
    IF name \notin DOMAIN ADAPTERS THEN Raised("UnknownAdapterError")
    ELSE Returned(ADAPTERS[name])

\* an adapter that supports every feature
GetCapabilityGapsNone(an_ir, capabilities) == { }

\* Adapter.get_capability_gaps
GetCapabilityGaps(an_ir, capabilities) == GetRequiredFeatures(an_ir) \ capabilities

\* process_ai_escapes: the stub puts its comment lines around the code of
\* every escape block
ProcessAiEscapes(an_ir, model) ==
    [ an_ir EXCEPT !.workflow.escape_blocks =
        [ i \in DOMAIN an_ir.workflow.escape_blocks |->
            [ target |-> an_ir.workflow.escape_blocks[i].target,
              code |-> << "# AI-generated code (stub)\n", "# Model: ", model, "\n",
                          "# Original request: " >>
                       \o an_ir.workflow.escape_blocks[i].target
                       \o << "\n", "\n" >>
                       \o an_ir.workflow.escape_blocks[i].code
                       \o << "\n", "\n",
                             "# TODO: Replace with actual AI-generated implementation\n" >> ] ] ]

\* LangGraphAdapter.emit: the entry point file in output_dir
EntryFile(output_dir) == PurePath(output_dir, "workflow", ".py")

\* compile: the output path when --output is not given
DefaultCompileOutput(file, target, outdir) ==
    PurePath(IF outdir = "" THEN file.dir ELSE outdir, file.stem \o "." \o target, ".py")

\* graph: the output path when --output is not given
DefaultGraphOutput(file, out_fmt) == WithSuffix(file, "." \o out_fmt)

KEY == << "K","E","Y" >>

TOKEN == << "T","O","K","E","N" >>

Demo == << "D","e","m","o" >>

Bot ==
    Agent(<< "B","o","t" >>,
          << Step(<< "G","r","e","e","t" >>, << StepAttribute(retry, IntVal(2)) >>) >>)

Router ==
    Agent(<< "B","o","t" >>,
          << Step(<< "R","o","u","t","e" >>,
                  << StepAttribute(branch, StrVal(<< "l","e","f","t" >>)) >>) >>)

Patch == EscapeBlock(<< "l","a","n","g","g","r","a","p","h" >>, << "x"," ","=","\n"," ","1" >>)

\* the workflows in the file: supported features only, one and two secrets, a
\* secret block without a name, an escape block, a branch, all of them, nothing
CliWorkflows ==
    { Workflow(Demo, << Bot >>, << >>, << >>),
      Workflow(Demo, << Bot >>, << >>, << SecretBlock(KEY) >>),
      Workflow(Demo, << Bot >>, << >>, << SecretBlock(TOKEN), SecretBlock(KEY) >>),
      Workflow(Demo, << Bot >>, << >>, << SecretBlock(<< >>) >>),
      Workflow(Demo, << Bot >>, << Patch >>, << >>),
      Workflow(Demo, << Router >>, << >>, << >>),
      Workflow(Demo, << Router >>, << Patch >>, << SecretBlock(KEY) >>),
      Workflow(<< >>, << >>, << >>, << >>) }

\* what compile_file gives for the file: the IR, or ParseError for a text
\* that is not a workflow
CompileOutcomes ==
    { Returned(LowerWorkflow(w)) : w \in CliWorkflows }
    \cup { Raised(ParseError(<< "Parse error in ", "demo.sf.md", ": ", "No terminal matches" >>,
                             "LarkError")) }

\* os.environ, as far as the secrets go
Environs == { { }, { KEY }, { KEY, TOKEN } }

\* stanzaflow compile FILE [--target] [--output] [--outdir] [--overwrite] [--ai-escapes]
CompileRuns ==
    { [ cmd |-> "compile", file |-> SourceFile, compiled |-> c, environ |-> e,
        target |-> tg, output |-> o[1], outdir |-> o[2], overwrite |-> ow,
        ai_escapes |-> ai, out_fmt |-> "" ] :
        c \in CompileOutcomes, e \in Environs, tg \in { "langgraph", "crewai" },
        o \in { << NoPath, "" >>, << NoPath, "build" >>,
                << PurePath(".", "out", ".py"), "" >>,
                << PurePath(".", "workflow", ".py"), "" >>,
                << PurePath(".", "out", ".txt"), "" >> },
        ow \in BOOLEAN, ai \in BOOLEAN }

\* stanzaflow graph FILE [--output] [--format] [--overwrite]
GraphRuns ==
    { [ cmd |-> "graph", file |-> SourceFile, compiled |-> c, environ |-> { },
        target |-> "", output |-> o, outdir |-> "", overwrite |-> ow,
        ai_escapes |-> FALSE, out_fmt |-> f ] :
        c \in CompileOutcomes, o \in { NoPath, PurePath(".", "out", ".svg") },
        ow \in BOOLEAN, f \in { "svg", "png" } }

\* the output files that can be there before the command runs
OldPaths ==
    { DefaultGraphOutput(SourceFile, "svg"),
      PurePath(".", "out", ".svg"),
      DefaultCompileOutput(SourceFile, "langgraph", ""),
      DefaultCompileOutput(SourceFile, "langgraph", "build"),
      PurePath(".", "out", ".py"),
      PurePath(".", "out", ".txt"),
      EntryFile(".") }

\* the disk before the command: the workflow file alone, with one output
\* file, with all of them, and without the workflow file
Disks ==
    { { File(SourceFile, "source") } }
    \cup { { File(SourceFile, "source"), File(p, "old") } : p \in OldPaths }
    \cup { { File(SourceFile, "source") } \cup { File(p, "old") : p \in OldPaths } }
    \cup { { } }

\* what generate_workflow_graph can do: a renderer writes the output file, the
\* text fallback writes beside it, or nothing can be written
RenderOutcomes == { "rendered", "text", "failed" }

\* how Path.rename treats a destination that exists: POSIX replaces it,
\* Windows raises FileExistsError
Platforms == { "posix", "nt" }

cliOthers ==
    << treeVars, graphVars, attrList, found, loweredStep, errorCase, friendly,
       attrVars, processVars, threadVars >>

\* raise typer.Exit(code)
Exit(c, code) == [ c EXCEPT !.pc = "exited", !.exit = code ]

\* the command line is entered
Run ==
    /\ cli.kind = "pending"
    /\ \E r \in CompileRuns \cup GraphRuns :
          cli' = [ kind |-> "run", inv |-> r, pc |-> "parse", ir |-> None,
                   output |-> r.output, user_specified |-> FALSE, exit |-> -1,
                   emits |-> 0, before |-> disk ]
    /\ UNCHANGED << disk, cliOthers >>

\* compile, graph: `if not file.exists()`, then compiler.compile_file(file)
CommandParse ==
    /\ cli.kind = "run"
    /\ cli.pc = "parse"
    /\ cli' = IF ~ Exists(disk, cli.inv.file) THEN Exit(cli, 1)
              ELSE IF cli.inv.compiled.kind = "raise" THEN Exit(cli, 1)
              ELSE [ cli EXCEPT !.ir = cli.inv.compiled.value,
                                !.pc = IF cli.inv.cmd = "compile" THEN "secrets"
                                       ELSE "graph_output" ]
    /\ UNCHANGED << disk, cliOthers >>

\* compile: missing_secrets = validate_secrets(ir)
CompileSecrets ==
    /\ cli.kind = "run"
    /\ cli.pc = "secrets"
    /\ cli' = IF ValidateSecrets(cli.ir.workflow.secrets, cli.inv.environ) # << >>
              THEN Exit(cli, 2)
              ELSE [ cli EXCEPT !.pc = "compile_output" ]
    /\ UNCHANGED << disk, cliOthers >>

\* compile: the output path is determined; a path the user passed is checked
CompileOutput ==
    /\ cli.kind = "run"
    /\ cli.pc = "compile_output"
    /\ \E out \in { IF cli.inv.output = NoPath
                    THEN DefaultCompileOutput(cli.inv.file, cli.inv.target, cli.inv.outdir)
                    ELSE cli.inv.output } :
          cli' = IF cli.inv.output # NoPath
                    /\ ~ AssertSafeOutput(disk, out, cli.inv.overwrite)
                 THEN Exit([ cli EXCEPT !.output = out, !.user_specified = TRUE ], 1)
                 ELSE [ cli EXCEPT !.output = out,
                                   !.user_specified = cli.inv.output # NoPath,
                                   !.pc = "adapter" ]
    /\ UNCHANGED << disk, cliOthers >>

\* a compile that goes on to emit in spite of the gaps
CompileAdapterIgnoresGaps ==
    /\ cli.kind = "run"
    /\ cli.pc = "adapter"
    /\ \E adapter \in { GetAdapter(cli.inv.target) } :
          cli' = IF adapter.kind = "raise" THEN Exit(cli, 2)
                 ELSE [ cli EXCEPT !.pc = IF cli.inv.ai_escapes THEN "escapes" ELSE "emit" ]
    /\ UNCHANGED << disk, cliOthers >>

\* compile: adapter = get_adapter(target), then the capability gaps
CompileAdapter ==
    /\ cli.kind = "run"
    /\ cli.pc = "adapter"
    /\ \E adapter \in { GetAdapter(cli.inv.target) } :
          cli' = IF adapter.kind = "raise" THEN Exit(cli, 2)
                 ELSE IF GetCapabilityGaps(cli.ir, adapter.value) # { }
                         /\ ~ cli.inv.ai_escapes
                 THEN Exit(cli, 2)
                 ELSE [ cli EXCEPT !.pc = IF cli.inv.ai_escapes THEN "escapes" ELSE "emit" ]
    /\ UNCHANGED << disk, cliOthers >>

\* compile: ir = process_ai_escapes(ir, model)
CompileEscapes ==
    /\ cli.kind = "run"
    /\ cli.pc = "escapes"
    /\ cli' = [ cli EXCEPT !.ir = ProcessAiEscapes(cli.ir, "gpt-4"), !.pc = "emit" ]
    /\ UNCHANGED << disk, cliOthers >>

\* compile: entry_file = adapter.emit(ir, output.parent), then the rename
\* onto an output path that ends in .py
CompileEmit ==
    /\ cli.kind = "run"
    /\ cli.pc = "emit"
    /\ \E entry_file \in { EntryFile(cli.output.dir) }, platform \in Platforms :
          IF cli.output.suffix = ".py" /\ cli.output # entry_file
          THEN IF platform = "nt" /\ Exists(disk, cli.output)
               THEN /\ disk' = Written(disk, entry_file)
                    /\ cli' = Exit([ cli EXCEPT !.emits = cli.emits + 1 ], 1)
               ELSE /\ disk' = Renamed(Written(disk, entry_file), entry_file, cli.output)
                    /\ cli' = Exit([ cli EXCEPT !.emits = cli.emits + 1 ], 0)
          ELSE /\ disk' = Written(disk, entry_file)
               /\ cli' = Exit([ cli EXCEPT !.emits = cli.emits + 1 ], 0)
    /\ UNCHANGED cliOthers

\* graph: the output path is determined; a path the user passed is checked
GraphOutput ==
    /\ cli.kind = "run"
    /\ cli.pc = "graph_output"
    /\ \E out \in { IF cli.inv.output = NoPath
                    THEN DefaultGraphOutput(cli.inv.file, cli.inv.out_fmt)
                    ELSE cli.inv.output } :
          cli' = IF cli.inv.output # NoPath
                    /\ ~ AssertSafeOutput(disk, out, cli.inv.overwrite)
                 THEN Exit([ cli EXCEPT !.output = out, !.user_specified = TRUE ], 1)
                 ELSE [ cli EXCEPT !.output = out,
                                   !.user_specified = cli.inv.output # NoPath,
                                   !.pc = "generate" ]
    /\ UNCHANGED << disk, cliOthers >>

\* graph: success = generate_workflow_graph(ir, output, out_fmt)
GraphGenerate ==
    /\ cli.kind = "run"
    /\ cli.pc = "generate"
    /\ \E outcome \in RenderOutcomes :
          CASE outcome = "rendered" ->
                 /\ disk' = Written(disk, cli.output)
                 /\ cli' = Exit(cli, 0)
            [] outcome = "text" ->
                 /\ disk' = Written(disk, WithSuffix(cli.output, ".txt"))
                 /\ cli' = Exit(cli, 0)
            [] OTHER ->
                 /\ disk' = disk
                 /\ cli' = Exit(cli, 1)
    /\ UNCHANGED cliOthers

InitCli ==
    /\ cli = Pending
    /\ disk \in Disks
    /\ TreeIdle
    /\ GraphIdle
    /\ attrList = << >>
    /\ found = Pending
    /\ loweredStep = Pending
    /\ errorCase = Pending
    /\ friendly = Pending
    /\ AttrIdle
    /\ env = Env("ok", "missing", Ir02Document)
    /\ ProcessInit

\* one command line runs from its entry to its exit
NextCli ==
    \/ Run
    \/ CommandParse
    \/ CompileSecrets
    \/ CompileOutput
    \/ CompileAdapter
    \/ CompileEscapes
    \/ CompileEmit
    \/ GraphOutput
    \/ GraphGenerate

SpecCli == InitCli /\ [][NextCli]_vars

\* ------------------------------------------------------- graph rendering

\* a tool on this machine: "absent" (shutil.which finds nothing), "broken"
\* (found, and its version command raises CalledProcessError or
\* FileNotFoundError), "norender" (the version command works, rendering
\* raises CalledProcessError), "ok"
ToolStates == { "absent", "broken", "norender", "ok" }

Tools == { "mmdc", "dot" }

\* the machine: the two tools, the diagrams library ("missing": ImportError,
\* "fails": it raises while rendering, "renders"), and whether the text file
\* beside the output path can be written; the diagrams library renders
\* through dot
ToolEnvs ==
    { e \in [ mmdc : ToolStates, dot : ToolStates,
              diagrams : { "missing", "fails", "renders" },
              text : { "writable", "readonly" } ] :
        e.diagrams = "renders" => e.dot = "ok" }

\* shutil.which(tool), then the version command with check=True: what is
\* written to the cache
ProbeTool(state) ==
    IF state = "absent" THEN "False"
    ELSE IF state = "broken" THEN "False"
    ELSE "True"

graphOthers ==
    << treeVars, cliVars, attrList, found, loweredStep, errorCase, friendly,
       attrVars, processVars, threadVars >>

\* the call of thread t returns
Return(t, renderer, value) ==
    render' = [render EXCEPT ![t].pc = "returned", ![t].used = renderer,
                             ![t].result = value]

\* generate_workflow_graph is entered: _try_mermaid_cli comes first
GenerateWorkflowGraph(t) ==
    /\ render[t].kind = "pending"
    /\ render' = [render EXCEPT ![t] =
                    [ kind |-> "call", pc |-> "acquire", tool |-> "mmdc",
                      saw |-> NoToolCache, tried |-> << "mermaid" >>, used |-> "",
                      result |-> "None" ]]
    /\ UNCHANGED << toolEnv, toolCache, toolLock, probes, graphOthers >>

\* a probe that does not wait for the lock
AcquireWithoutWaiting(t) ==
    /\ render[t].kind = "call"
    /\ render[t].pc = "acquire"
    /\ render' = [render EXCEPT ![t].pc = "check"]
    /\ UNCHANGED << toolLock, toolEnv, toolCache, probes, graphOthers >>

\* with _CACHE_LOCK: the thread waits until the lock is free and takes it
Acquire(t) ==
    /\ render[t].kind = "call"
    /\ render[t].pc = "acquire"
    /\ toolLock = 0
    /\ toolLock' = t
    /\ render' = [render EXCEPT ![t].pc = "check"]
    /\ UNCHANGED << toolEnv, toolCache, probes, graphOthers >>

\* if _MERMAID_AVAILABLE is None / if _GRAPHVIZ_AVAILABLE is None
Check(t) ==
    /\ render[t].kind = "call"
    /\ render[t].pc = "check"
    /\ render' = [render EXCEPT ![t].pc =
                    IF toolCache[render[t].tool] = "None" THEN "probe" ELSE "read"]
    /\ UNCHANGED << toolEnv, toolCache, toolLock, probes, graphOthers >>

\* the tool is looked for and its version command is run; the answer is
\* written to the cache
Probe(t) ==
    /\ render[t].kind = "call"
    /\ render[t].pc = "probe"
    /\ probes' = [probes EXCEPT ![render[t].tool] = @ + 1]
    /\ toolCache' = [toolCache EXCEPT ![render[t].tool] = ProbeTool(toolEnv[render[t].tool])]
    /\ render' = [render EXCEPT ![t].pc = "read"]
    /\ UNCHANGED << toolEnv, toolLock, graphOthers >>

\* mermaid_available = _MERMAID_AVAILABLE / graphviz_available =
\* _GRAPHVIZ_AVAILABLE, and the with block ends
Read(t) ==
    /\ render[t].kind = "call"
    /\ render[t].pc = "read"
    /\ render' = [render EXCEPT ![t].saw[render[t].tool] = toolCache[render[t].tool],
                               ![t].pc = IF render[t].tool = "mmdc" THEN "mermaid"
                                         ELSE "graphviz"]
    /\ toolLock' = 0
    /\ UNCHANGED << toolEnv, toolCache, probes, graphOthers >>

\* a _try_mermaid_cli whose render never fails
RenderMermaidNeverFails(t) ==
    /\ render[t].kind = "call"
    /\ render[t].pc = "mermaid"
    /\ IF render[t].saw.mmdc = "True"
       THEN Return(t, "mermaid", TRUE)
       ELSE render' = [render EXCEPT ![t].pc = "diagrams",
                                     ![t].tried = Append(@, "graphviz")]
    /\ UNCHANGED << toolEnv, toolCache, toolLock, probes, graphOthers >>

\* _try_mermaid_cli past the probe: False when mmdc is not available or the
\* render raises, and then _try_graphviz_fallback
RenderMermaid(t) ==
    /\ render[t].kind = "call"
    /\ render[t].pc = "mermaid"
    /\ IF render[t].saw.mmdc = "True" /\ toolEnv.mmdc = "ok"
       THEN Return(t, "mermaid", TRUE)
       ELSE render' = [render EXCEPT ![t].pc = "diagrams",
                                     ![t].tried = Append(@, "graphviz")]
    /\ UNCHANGED << toolEnv, toolCache, toolLock, probes, graphOthers >>

\* _try_graphviz_fallback: _try_diagrams_library, then _try_raw_graphviz
TryDiagrams(t) ==
    /\ render[t].kind = "call"
    /\ render[t].pc = "diagrams"
    /\ IF toolEnv.diagrams = "renders"
       THEN Return(t, "graphviz", TRUE)
       ELSE render' = [render EXCEPT ![t].pc = "acquire", ![t].tool = "dot"]
    /\ UNCHANGED << toolEnv, toolCache, toolLock, probes, graphOthers >>

\* _try_raw_graphviz past the probe: dot renders, or CalledProcessError
\* leads to the text fallback
RenderGraphviz(t) ==
    /\ render[t].kind = "call"
    /\ render[t].pc = "graphviz"
    /\ IF render[t].saw.dot = "True" /\ toolEnv.dot = "ok"
       THEN Return(t, "graphviz", TRUE)
       ELSE render' = [render EXCEPT ![t].pc = "text", ![t].tried = Append(@, "text")]
    /\ UNCHANGED << toolEnv, toolCache, toolLock, probes, graphOthers >>

\* _try_raw_graphviz: the text file is written beside the output path;
\* except Exception: return False
WriteText(t) ==
    /\ render[t].kind = "call"
    /\ render[t].pc = "text"
    /\ IF toolEnv.text = "writable"
       THEN Return(t, "text", TRUE)
       ELSE Return(t, "", FALSE)
    /\ UNCHANGED << toolEnv, toolCache, toolLock, probes, graphOthers >>

InitGraph ==
    /\ toolEnv \in ToolEnvs
    /\ toolCache = NoToolCache
    /\ toolLock = 0
    /\ probes = [ mmdc |-> 0, dot |-> 0 ]
    /\ render = [ t \in Threads |-> Pending ]
    /\ TreeIdle
    /\ CliIdle
    /\ attrList = << >>
    /\ found = Pending
    /\ loweredStep = Pending
    /\ errorCase = Pending
    /\ friendly = Pending
    /\ AttrIdle
    /\ env = Env("ok", "missing", Ir02Document)
    /\ ProcessInit

\* threads render graphs concurrently, one call each; _reset_tool_cache is
\* not called
NextGraph ==
    \/ \E t \in Threads : GenerateWorkflowGraph(t)
    \/ \E t \in Threads : Acquire(t)
    \/ \E t \in Threads : Check(t)
    \/ \E t \in Threads : Probe(t)
    \/ \E t \in Threads : Read(t)
    \/ \E t \in Threads : RenderMermaid(t)
    \/ \E t \in Threads : TryDiagrams(t)
    \/ \E t \in Threads : RenderGraphviz(t)
    \/ \E t \in Threads : WriteText(t)

SpecGraph == InitGraph /\ [][NextGraph]_vars

\* --------------------------------------------------------------- claims

\* the call of thread t has given its outcome
Done(t) == pc[t] = "done"

Compiled(t) == Done(t) /\ call[t].fn \in CompileFunctions

\* C1: compile_string and compile_file return an IR only after validate_ir
\* accepted that same IR, and return no IR when validation failed.
C1_ReturnsOnlyValidatedIr ==
    \A t \in Threads :
        Compiled(t) =>
            /\ result[t].kind = "return" => checked[t] = result[t].value
            /\ thrown[t].type = "jsonschema.ValidationError" => result[t].kind = "raise"

C1_Witness ==
    \E t \in Threads :
        /\ Compiled(t)
        /\ result[t].kind = "return"
        /\ checked[t] = result[t].value
        /\ result[t].value.workflow.agents # << >>

\* C2: under any interleaving of concurrent first calls of validate_ir the
\* schema document is read at most once, the validator is constructed at most
\* once, and all callers use the same validator object.
C2_LoadedOnce ==
    /\ schemaReads <= 1
    /\ validatorsBuilt <= 1
    /\ \A t, u \in Threads :
        (validator[t] # NoValidator /\ validator[u] # NoValidator)
            => validator[t] = validator[u]

C2_Witness ==
    \E t, u \in Threads :
        /\ pc[t] = "validate" /\ pc[u] = "validate"
        /\ validator[t].id # validator[u].id
        /\ schemaReads = 2

\* C3: in a single-threaded run, once the cache holds a validator no step of
\* the pipeline replaces or clears it, no step reads the schema document
\* again, and every validate_ir call holds that validator.
C3_CacheKept ==
    [][ cache # NoValidator =>
            /\ cache' = cache
            /\ schemaReads' = schemaReads
            /\ validatorsBuilt' = validatorsBuilt
            /\ \A t \in Threads : validator'[t] \in { NoValidator, cache } ]_vars

C3_Witness ==
    \E t \in Threads :
        /\ pc[t] = "validate"
        /\ ~didRead[t]
        /\ validator[t] = cache
        /\ cache # NoValidator
        /\ schemaReads = 1
        /\ calls = 2

\* the schema document can be loaded from where the process looks for it
SchemaLoadable ==
    env.packaged = "ok" \/ (env.packaged = "missing" /\ env.fallback = "ok")

LoaderErrors == { "FileNotFoundError", "JSONDecodeError" }

\* C4 as stated: compile_string and compile_file return an IR or raise
\* ParseError or ValidationError, whatever the input and the state of the
\* schema document.
C4_OnlyParseOrValidationError ==
    \A t \in Threads :
        Compiled(t) =>
            IF result[t].kind = "return" THEN TRUE
            ELSE result[t].exc.type \in { "ParseError", "ValidationError" }

\* C4 amended: compile_string and compile_file return an IR or raise
\* ParseError or ValidationError, except that the loader's own error
\* (FileNotFoundError, or the error of the read) escapes, unwrapped, exactly
\* when the source parsed and the schema document cannot be loaded.
C4_LoaderErrorEscapes ==
    \A t \in Threads :
        Compiled(t) =>
            IF workflow[t] # None /\ ~SchemaLoadable
            THEN /\ result[t].kind = "raise"
                 /\ result[t].exc.type \in LoaderErrors
                 /\ result[t].exc = thrown[t]
            ELSE IF result[t].kind = "return" THEN TRUE
            ELSE result[t].exc.type \in { "ParseError", "ValidationError" }

C4_Witness ==
    \E t \in Threads :
        /\ Compiled(t)
        /\ result[t].kind = "raise"
        /\ result[t].exc.type = "FileNotFoundError"

\* C5: when the lowered IR fails validation inside compile_string or
\* compile_file, the caller gets the ValidationError validate_ir raised, with
\* its path, value and original_error, not caught and not wrapped.
C5_ValidationErrorUnchanged ==
    \A t \in Threads :
        (Compiled(t) /\ thrown[t].type = "jsonschema.ValidationError") =>
            /\ result[t] = Raised(ValidateIrHandler(thrown[t]))
            /\ result[t].exc.type = "ValidationError"
            /\ result[t].exc.path = HumanPath(thrown[t].absolute_path)
            /\ result[t].exc.value = thrown[t].instance
            /\ result[t].exc.original_error = thrown[t]

C5_Witness ==
    \E t \in Threads :
        /\ Compiled(t)
        /\ thrown[t].type = "jsonschema.ValidationError"
        /\ result[t].kind = "raise"
        /\ result[t].exc.type = "ValidationError"
        /\ result[t].exc.path # "root"

Mentions(message, label) == \E i \in DOMAIN message : message[i] = label

\* C6: parse_string raises nothing but ParseError when the grammar engine or
\* the transformer fails, with the source label in the message; parse_file
\* raises ParseError when the file is missing, unreadable or not UTF-8.
C6_OnlyParseError ==
    \A t \in Threads :
        (Done(t) /\ result[t].kind = "raise") =>
            /\ call[t].fn = "parse_string" =>
                 /\ result[t].exc.type = "ParseError"
                 /\ Mentions(result[t].exc.message, call[t].source)
            /\ call[t].fn = "parse_file" => result[t].exc.type = "ParseError"

C6_Witness ==
    \E t \in Threads :
        /\ Done(t)
        /\ call[t].fn = "parse_string"
        /\ thrown[t].type = "ValueError"
        /\ result[t].kind = "raise"
        /\ result[t].exc.type = "ParseError"
        /\ call[t].source = "request-7"

\* the parts are those of a `key: value` line: a key of letters and
\* underscores, the colon, a value
KeyValueShaped(p) ==
    /\ p.key # << >>
    /\ \A i \in DOMAIN p.key : IsKeyChar(p.key[i])
    /\ p.sep = << ":" >>
    /\ p.value # << >>

KeyedBy(p, keys) == KeyValueShaped(p) /\ StrLower(p.key) \in keys

\* C7 as stated: a retry or timeout line yields an integer-valued
\* StepAttribute if and only if its value is all decimal digits; for every
\* other value it yields no attribute and raises no error.
C7_NumericGate ==
    lineResults.kind = "results" =>
        \A i \in DOMAIN stepLines :
            KeyedBy(stepLines[i], NumericKeys) =>
                lineResults.each[i] =
                    IF StrIsDecimal(stepLines[i].value)
                    THEN Returned(StepAttribute(StrLower(stepLines[i].key),
                                                IntVal(DecimalValue(stepLines[i].value))))
                    ELSE Returned(None)

C7_Witness ==
    /\ lineResults.kind = "results"
    /\ \E i \in DOMAIN stepLines :
        /\ KeyedBy(stepLines[i], NumericKeys)
        /\ stepLines[i].value = << "U+00B2" >>
        /\ lineResults.each[i] = Raised("ValueError")

Unrecognized(p) == ~KeyedBy(p, RecognizedKeys)

Without(lines, i) == SubSeq(lines, 1, i - 1) \o SubSeq(lines, i + 1, Len(lines))

\* C9: a line with a key outside the recognized set, or not of the
\* `key: value` shape, yields nothing and raises nothing, and the step body
\* gives what it gives without that line.
C9_DroppedLineLeavesOthers ==
    /\ lineResults.kind = "results" =>
         \A i \in DOMAIN stepLines :
             Unrecognized(stepLines[i]) => lineResults.each[i] = Returned(None)
    /\ stepResult.kind # "pending" =>
         \A i \in DOMAIN stepLines :
             Unrecognized(stepLines[i]) =>
                 stepResult =
                     TransformStepBody(StepTree(StepNamed, Texts(Without(stepLines, i))))

C9_Witness ==
    /\ lineResults.kind = "results"
    /\ stepResult.kind = "return"
    /\ Len(stepLines) = 2
    /\ Unrecognized(stepLines[1])
    /\ lineResults.each[1] = Returned(None)
    /\ Len(stepResult.value) = 1

\* the canonical line `key: value` of the parts
Canonical(p) ==
    LinePart(StrLower(p.key), << >>, << ":" >>, << " " >>, p.value, << << >>, << >> >>)

\* C10: a line of a recognized key in any letter case, with any white space
\* around the colon, yields what the canonical line `key: value` yields, the
\* key in lower case.
C10_VariantsAgree ==
    lineResults.kind = "results" =>
        \A i \in DOMAIN stepLines :
            KeyedBy(stepLines[i], RecognizedKeys) =>
                /\ lineResults.each[i] =
                     TransformStepAttribute(AttrLineTree(LineText(Canonical(stepLines[i]))))
                /\ (lineResults.each[i].kind = "return"
                        /\ lineResults.each[i].value.kind = "StepAttribute")
                     => lineResults.each[i].value.key = StrLower(stepLines[i].key)

C10_Witness ==
    /\ lineResults.kind = "results"
    /\ \E i \in DOMAIN stepLines :
        /\ KeyedBy(stepLines[i], RecognizedKeys)
        /\ stepLines[i].key = StrUpper(timeout)
        /\ stepLines[i].gap1 = << " ", "\t" >>
        /\ stepLines[i].gap2 = << >>
        /\ lineResults.each[i] = Returned(StepAttribute(timeout, IntVal(45)))

\* the positions of the attributes of `key` in a list
Occurrences(attributes, key) == { i \in DOMAIN attributes : attributes[i].key = key }

FirstOf(S) == CHOOSE i \in S : \A j \in S : i <= j

LastOf(S) == CHOOSE i \in S : \A j \in S : j <= i

\* C11: get_attribute(key) returns the first attribute of the key in the
\* list (None when there is none), the IR mapping of the step holds the value
\* of the last one, and the mapping has exactly one entry for each distinct
\* key of the list.
C11_FirstFoundLastLowered ==
    /\ found.kind = "found" =>
         found.attr =
             IF Occurrences(attrList, found.key) = {} THEN None
             ELSE attrList[FirstOf(Occurrences(attrList, found.key))]
    /\ loweredStep.kind = "lowered" =>
         /\ DOMAIN loweredStep.step.attributes = { attrList[i].key : i \in DOMAIN attrList }
         /\ \A k \in DOMAIN loweredStep.step.attributes :
                loweredStep.step.attributes[k] =
                    attrList[LastOf(Occurrences(attrList, k))].value

C11_Witness ==
    /\ found.kind = "found"
    /\ loweredStep.kind = "lowered"
    /\ Cardinality(Occurrences(attrList, found.key)) = 3
    /\ found.attr = attrList[1]
    /\ loweredStep.step.attributes[found.key] = attrList[3].value
    /\ attrList[1].value # attrList[3].value
    /\ attrList[2].value # attrList[3].value

\* thread t is in workflow_to_ir and has built the IR
Lowered(t) == call[t].fn = "workflow_to_ir" /\ pc[t] \notin { "idle", "lower" }

\* C12: the IR built by workflow_to_ir has ir_version "0.2" and the title,
\* and its agents, their steps, its escape_blocks and its secrets are as many
\* and in the same order as in the AST, with name, target, code and env_var
\* copied.
C12_StructurePreserved ==
    \A t \in Threads :
        Lowered(t) =>
            /\ ir[t].ir_version = StrVal(<< "0.2" >>)
            /\ ir[t].workflow.title = workflow[t].title
            /\ Len(ir[t].workflow.agents) = Len(workflow[t].agents)
            /\ \A i \in DOMAIN workflow[t].agents :
                /\ ir[t].workflow.agents[i].name = workflow[t].agents[i].name
                /\ Len(ir[t].workflow.agents[i].steps) = Len(workflow[t].agents[i].steps)
                /\ \A j \in DOMAIN workflow[t].agents[i].steps :
                       ir[t].workflow.agents[i].steps[j].name
                           = workflow[t].agents[i].steps[j].name
            /\ Len(ir[t].workflow.escape_blocks) = Len(workflow[t].escape_blocks)
            /\ \A i \in DOMAIN workflow[t].escape_blocks :
                /\ ir[t].workflow.escape_blocks[i].target = workflow[t].escape_blocks[i].target
                /\ ir[t].workflow.escape_blocks[i].code = workflow[t].escape_blocks[i].code
            /\ Len(ir[t].workflow.secrets) = Len(workflow[t].secret_blocks)
            /\ \A i \in DOMAIN workflow[t].secret_blocks :
                   ir[t].workflow.secrets[i].env_var = workflow[t].secret_blocks[i].env_var

C12_Witness ==
    \E t \in Threads :
        /\ Lowered(t)
        /\ Len(ir[t].workflow.agents) = 2
        /\ ir[t].workflow.agents[1].name # ir[t].workflow.agents[2].name
        /\ Len(ir[t].workflow.agents[2].steps) = 2
        /\ Len(ir[t].workflow.escape_blocks) = 2
        /\ ir[t].workflow.escape_blocks[1] # ir[t].workflow.escape_blocks[2]
        /\ Len(ir[t].workflow.secrets) = 2
        /\ ir[t].workflow.title # << >>

\* the call of thread t is a call of workflow_to_ir that has given its outcome
LoweringDone(t) == Done(t) /\ call[t].fn = "workflow_to_ir"

\* C13 as stated: workflow_to_ir validates nothing and never raises, whatever
\* well-formed Workflow it is given.
C13_NeverRaises ==
    \A t \in Threads : LoweringDone(t) => result[t].kind = "return"

\* C13 amended: building the IR never raises, for any well-formed Workflow;
\* workflow_to_ir then calls validate_ir on the IR it built, and raises what
\* validate_ir raises: ValidationError, or the loader's error when the schema
\* document cannot be loaded.
C13_RaisesOnlyFromValidateIr ==
    \A t \in Threads :
        LoweringDone(t) =>
            /\ ir[t] # None
            /\ ir[t].workflow.title = call[t].workflow.title
            /\ Len(ir[t].workflow.agents) = Len(call[t].workflow.agents)
            /\ thrown[t].type \in { "None", "jsonschema.ValidationError" } \cup LoaderErrors
            /\ IF ~SchemaLoadable
               THEN result[t] = Raised(thrown[t]) /\ thrown[t].type \in LoaderErrors
               ELSE IF thrown[t].type = "jsonschema.ValidationError"
               THEN result[t].kind = "raise" /\ result[t].exc.type = "ValidationError"
               ELSE result[t] = Returned(ir[t])

C13_Witness ==
    \E t \in Threads :
        /\ LoweringDone(t)
        /\ call[t].workflow.agents = << >>
        /\ ir[t].workflow.agents = << >>
        /\ result[t].kind = "raise"
        /\ result[t].exc.type = "FileNotFoundError"

\* a finished call on the document that holds a title and nothing else
TitleOnly(t) ==
    /\ Done(t)
    /\ call[t].fn \in { "parse_string", "compile_string" }
    /\ call[t].content = "title_only"

Title == << "D", "e", "m", "o" >>

\* C14: a document with a title and no agents parses to a Workflow with that
\* title and no agents; its IR has "agents": [], no escape blocks and no
\* secrets, and validate_ir accepts that IR.
C14_TitleOnlyDocument ==
    \A t \in Threads :
        TitleOnly(t) =>
            /\ workflow[t] = Workflow(Title, << >>, << >>, << >>)
            /\ call[t].fn = "parse_string" => result[t] = Returned(workflow[t])
            /\ call[t].fn = "compile_string" =>
                   /\ ir[t].ir_version = StrVal(<< "0.2" >>)
                   /\ ir[t].workflow =
                          [ title |-> Title, agents |-> << >>,
                            escape_blocks |-> << >>, secrets |-> << >> ]
                   /\ SchemaLoadable =>
                          /\ thrown[t].type = "None"
                          /\ checked[t] = ir[t]
                          /\ result[t] = Returned(ir[t])

C14_Witness ==
    \E t \in Threads :
        /\ TitleOnly(t)
        /\ call[t].fn = "compile_string"
        /\ result[t].kind = "return"
        /\ result[t].value.workflow.agents = << >>
        /\ result[t].value.workflow.title = Title

\* a finished call of validate_ir, given the IR directly, with the schema
\* document of the specification loaded
Validated(t) ==
    /\ Done(t)
    /\ call[t].fn = "validate_ir"
    /\ SchemaLoadable
    /\ env.document = Ir02Document

TopLevel == { "ir_version", "workflow" }

\* C15: validate_ir on an IR without ir_version, or without workflow, raises
\* ValidationError with path "root" and a message that names the missing
\* property and says it is required.
C15_MissingTopLevelProperty ==
    \A t \in Threads :
        Validated(t) /\ TopLevel \ DOMAIN call[t].ir # {} =>
            /\ result[t].kind = "raise"
            /\ result[t].exc.type = "ValidationError"
            /\ result[t].exc.path = "root"
            /\ \E p \in TopLevel \ DOMAIN call[t].ir :
                   result[t].exc.message
                       = << "Missing required property '", p, "' at ", "root" >>

C15_Witness ==
    \E t \in Threads :
        /\ Validated(t)
        /\ "workflow" \notin DOMAIN call[t].ir
        /\ result[t].kind = "raise"
        /\ result[t].exc.message[2] = "workflow"

\* the IR given to validate_ir has both top-level properties
HasTopLevel(t) == TopLevel \subseteq DOMAIN call[t].ir

\* C16: validate_ir on an IR whose ir_version is anything but the string
\* "0.2", another string or a value of another type, raises ValidationError
\* with a message that refers to "0.2".
C16_WrongVersionNames02 ==
    \A t \in Threads :
        Validated(t) /\ HasTopLevel(t) /\ call[t].ir.ir_version # StrVal(<< "0.2" >>) =>
            /\ result[t].kind = "raise"
            /\ result[t].exc.type = "ValidationError"
            /\ result[t].exc.path = "ir_version"
            /\ result[t].exc.value.v = call[t].ir.ir_version
            /\ \E i \in DOMAIN result[t].exc.message : result[t].exc.message[i] = "'0.2'"

C16_Witness ==
    \E t \in Threads :
        /\ Validated(t)
        /\ HasTopLevel(t)
        /\ call[t].ir.ir_version = IntVal(2)
        /\ result[t].kind = "raise"
        /\ result[t].exc.message
               = << "Validation error at ", "ir_version", ": ", "'0.2'", " was expected" >>

\* the attribute keys of the IR given to validate_ir that the schema does not list
Disallowed(i) ==
    UNION { DOMAIN AttributesAt(i, p) \ RecognizedKeys : p \in StepsOf(i) }

\* C17: validate_ir on an IR with a step whose attributes hold a key outside
\* the recognized set raises ValidationError with a message that names the key
\* and says it is not allowed; the IR comes from the caller, no transformer
\* has seen it.
C17_UnknownKeyRejected ==
    \A t \in Threads :
        Validated(t) /\ HasTopLevel(t) /\ call[t].ir.ir_version = StrVal(<< "0.2" >>)
                     /\ Disallowed(call[t].ir) # {} =>
            /\ workflow[t] = None
            /\ result[t].kind = "raise"
            /\ result[t].exc.type = "ValidationError"
            /\ Mentions(result[t].exc.message, "Additional properties are not allowed (")
            /\ \E k \in Disallowed(call[t].ir) : Mentions(result[t].exc.message, Join(k))
            /\ \E p \in StepsOf(call[t].ir) :
                /\ DOMAIN AttributesAt(call[t].ir, p) \ RecognizedKeys # {}
                /\ result[t].exc.path = HumanPath(AttributesPath(p[1], p[2]))
                /\ result[t].exc.value.v = AttributesAt(call[t].ir, p)

C17_Witness ==
    \E t \in Threads :
        /\ Validated(t)
        /\ HasTopLevel(t)
        /\ Disallowed(call[t].ir) = { priority }
        /\ Len(call[t].ir.workflow.agents) = 2
        /\ result[t].kind = "raise"
        /\ result[t].exc.path = "workflow -> agents[1] -> steps[1] -> attributes"
        /\ Mentions(result[t].exc.message, "priority")

\* one part of a path as the human path shows it
PartText(part) == IF part.index THEN "[" \o ToString(part.i) \o "]" ELSE part.name

\* a non-empty path rendered from its end: an index is attached to what
\* precedes it, a key is joined to what precedes it with the arrow
RECURSIVE Rendering(_)
Rendering(path) ==
    IF Len(path) = 1 THEN PartText(path[1])
    ELSE Rendering(SubSeq(path, 1, Len(path) - 1))
             \o (IF path[Len(path)].index THEN "" ELSE " -> ")
             \o PartText(path[Len(path)])

Built == friendly.kind = "built"

\* C18: from_jsonschema_error renders every absolute path with string keys
\* joined by the arrow and each index attached as [i] to what precedes it,
\* renders the empty path as "root", and gives a ValidationError that carries
\* this path, the offending value and the original error.
C18_HumanPathRendered ==
    Built =>
        /\ friendly.exc.type = "ValidationError"
        /\ friendly.exc.path = (IF errorCase.absolute_path = << >> THEN "root"
                                ELSE Rendering(errorCase.absolute_path))
        /\ friendly.exc.value = errorCase.instance
        /\ friendly.exc.original_error = errorCase

C18_Witness ==
    /\ Built
    /\ errorCase.absolute_path
           = << Key("workflow"), Key("agents"), Index(0), Key("steps"), Index(0) >>
    /\ friendly.exc.path = "workflow -> agents[0] -> steps[0]"
    /\ friendly.exc.original_error = errorCase

\* the human path of the error given to from_jsonschema_error
PathShown ==
    IF errorCase.absolute_path = << >> THEN "root" ELSE Rendering(errorCase.absolute_path)

\* the allowed values of the failed subschema, as the message lists them
RECURSIVE Listed(_)
Listed(values) ==
    IF values = << >> THEN ""
    ELSE (IF Len(values) > 1 THEN Listed(SubSeq(values, 1, Len(values) - 1)) \o ", " ELSE "")
         \o (IF values[Len(values)].type = "str" THEN Join(values[Len(values)].s)
             ELSE ToString(values[Len(values)].n))

\* C19: the message is built by the kind of the violation: a missing required
\* property gives a message that names the property, a wrong type a message
\* with the expected and the actual type, an enum violation a message that
\* lists the allowed values, and any other kind the generic message made of
\* the path and the validator's message; every message holds the human path.
C19_MessageByKind ==
    Built =>
        /\ Mentions(friendly.exc.message, PathShown)
        /\ errorCase.validator = "required" =>
               friendly.exc.message
                   = << "Missing required property '",
                        IF Mentions(errorCase.message, "'") THEN errorCase.message[2]
                        ELSE "property",
                        "' at ", PathShown >>
        /\ errorCase.validator = "type" =>
               friendly.exc.message
                   = << "Expected ",
                        IF "type" \in DOMAIN errorCase.schema THEN errorCase.schema.type
                        ELSE "unknown",
                        " at ", PathShown, ", got ", errorCase.instance.pytype >>
        /\ errorCase.validator = "enum" =>
               friendly.exc.message
                   = << "Invalid value at ", PathShown, ". Allowed values: ",
                        IF "enum" \in DOMAIN errorCase.schema
                        THEN Listed(errorCase.schema.enum) ELSE "" >>
        /\ errorCase.validator \notin { "required", "type", "enum" } =>
               friendly.exc.message
                   = << "Validation error at ", PathShown, ": " >> \o errorCase.message

C19_Witness ==
    /\ Built
    /\ errorCase.validator = "enum"
    /\ errorCase.absolute_path = << Key("workflow"), Key("agents"), Index(1) >>
    /\ friendly.exc.message
           = << "Invalid value at ", "workflow -> agents[1]", ". Allowed values: ",
                "a, 1, b" >>

\* two finished compiles of one source text
SameText(t, u) ==
    /\ t # u
    /\ Compiled(t)
    /\ Compiled(u)
    /\ content[t] # ""
    /\ content[t] = content[u]

\* C20: two compiles of the same source text, whichever compiler runs them
\* and whether the schema cache was empty or filled, return equal IRs or both
\* fail with the same kind of failure.
C20_Deterministic ==
    \A t, u \in Threads :
        SameText(t, u) =>
            /\ result[t].kind = result[u].kind
            /\ result[t].kind = "return" => result[t].value = result[u].value
            /\ result[t].kind = "raise" => result[t].exc.type = result[u].exc.type

C20_Witness ==
    \E t, u \in Threads :
        /\ SameText(t, u)
        /\ call[t].fn = "compile_string"
        /\ call[u].fn = "compile_file"
        /\ didRead[t]
        /\ ~didRead[u]
        /\ result[t].kind = "return"
        /\ result[u] = result[t]
        /\ result[t].value.workflow.agents # << >>

\* the tree given to transform holds a workflow subtree, or is one
HasWorkflow ==
    tree.data = "start" => tree.children # << >> /\ tree.children[1].node = "Tree"

\* the children of the workflow subtree
WorkflowChildren == IF tree.data = "start" THEN tree.children[1].children ELSE tree.children

\* the subtrees named `data` among `nodes`, in the order of the document
RECURSIVE Productions(_, _)
Productions(nodes, data) ==
    IF nodes = << >> THEN << >>
    ELSE (IF Head(nodes).node = "Tree" /\ Head(nodes).data = data
          THEN << Head(nodes) >> ELSE << >>)
         \o Productions(Tail(nodes), data)

\* the blocks of the document
DocBlocks == ContentChildren(WorkflowChildren)

\* `text` is `raw` with whitespace taken from its two ends and nowhere else
TrimmedAtEdges(text, raw) ==
    /\ text = << >> \/ (~IsSpace(text[1]) /\ ~IsSpace(text[Len(text)]))
    /\ \E a \in 0..Len(raw) :
        /\ a + Len(text) <= Len(raw)
        /\ SubSeq(raw, a + 1, a + Len(text)) = text
        /\ \A i \in (1..a) \cup ((a + Len(text) + 1)..Len(raw)) : IsSpace(raw[i])

\* the value of the first token named `type` among the children of a tree
TokenValue(node, type) ==
    node.children[Min({ i \in DOMAIN node.children :
                          IsNode(node.children[i], "Token", type) })].value

Transformed == treeResult.kind = "return" /\ HasWorkflow

Headings == Productions(WorkflowChildren, "heading")

IsMarkup(c) == c = "#" \/ IsSpace(c)

\* `text` is `raw` without its leading # and whitespace and its trailing whitespace
Unmarked(text, raw) ==
    /\ text = << >> \/ (~IsMarkup(text[1]) /\ ~IsSpace(text[Len(text)]))
    /\ \E a \in 0..Len(raw) :
        /\ a + Len(text) <= Len(raw)
        /\ SubSeq(raw, a + 1, a + Len(text)) = text
        /\ \A i \in 1..a : IsMarkup(raw[i])
        /\ \A i \in (a + Len(text) + 1)..Len(raw) : IsSpace(raw[i])

\* the title the heading subtree `h` stands for
TitleIs(title, h) ==
    IF \A k \in DOMAIN h.children : ~IsNode(h.children[k], "Token", "HEADING")
    THEN title = << >>
    ELSE Unmarked(title, TokenValue(h, "HEADING"))

\* C22: the title is the text of the first heading of the tree, its leading #
\* and whitespace removed; a later heading does not replace it; a tree with
\* no heading gives the empty title and no error.
C22_FirstHeadingIsTitle ==
    /\ treeResult.kind # "pending" /\ HasWorkflow /\ Headings = << >> /\ DocBlocks = << >> =>
           treeResult.kind = "return"
    /\ Transformed =>
           IF Headings = << >> THEN treeResult.value.title = << >>
           ELSE TitleIs(treeResult.value.title, Headings[1])

\* two headings, and the title is the text of the second
C22_Witness ==
    /\ Transformed
    /\ Len(Headings) = 2
    /\ TitleIs(<< "D","e","m","o" >>, Headings[1])
    /\ treeResult.value.title = << "E","n","d" >>

\* the agent productions of the document and the step productions of one
AgentProductions == Productions(DocBlocks, "agent_block")

StepProductions(agent) == Productions(agent.children, "step")

\* a production too short for the transformer: an agent block without
\* children, or a step with fewer than two
TooShort ==
    \E i \in DOMAIN AgentProductions :
        \/ AgentProductions[i].children = << >>
        \/ \E j \in DOMAIN StepProductions(AgentProductions[i]) :
               Len(StepProductions(AgentProductions[i])[j].children) < 2

\* the production has a name subtree holding a token, or a name token
Named(node, data) ==
    \/ node.node = "Token"
    \/ node.data = data /\ node.children # << >> /\ node.children[1].node = "Token"

\* C25: every agent and step production, whatever its children, gives an Agent
\* or a Step, with the empty name when the name token or subtree is absent;
\* no error is raised.
C25_AlwaysAgentOrStep ==
    treeResult.kind # "pending" /\ HasWorkflow =>
        /\ treeResult.kind = "return"
        /\ Len(treeResult.value.agents) = Len(AgentProductions)
        /\ \A i \in DOMAIN AgentProductions :
            /\ (AgentProductions[i].children[1].node = "Token"
                \/ \A k \in DOMAIN AgentProductions[i].children[1].children :
                       ~Named(AgentProductions[i].children[1].children[k], "agent_name"))
                   => treeResult.value.agents[i].name = << >>
            /\ \A j \in DOMAIN StepProductions(AgentProductions[i]) :
                   ~Named(StepProductions(AgentProductions[i])[j].children[2], "step_name")
                       => treeResult.value.agents[i].steps[j].name = << >>

\* an agent block without children, and transform raised IndexError
C25_Witness ==
    /\ treeResult.kind = "raise"
    /\ HasWorkflow
    /\ treeResult.exc = "IndexError"
    /\ \E i \in DOMAIN AgentProductions : AgentProductions[i].children = << >>
    /\ \A i \in DOMAIN AgentProductions :
           \A j \in DOMAIN StepProductions(AgentProductions[i]) :
               Len(StepProductions(AgentProductions[i])[j].children) >= 2

\* C27: every StepAttribute the transformer makes has a recognized key, a
\* non-negative integer for retry and timeout and a non-empty string for the
\* other keys; hence the attributes mapping of the IR holds no unknown key.
C27_OnlyRecognizedAttributes ==
    stepResult.kind = "return" =>
        /\ \A i \in DOMAIN stepResult.value :
            /\ stepResult.value[i].kind = "StepAttribute"
            /\ stepResult.value[i].key \in RecognizedKeys
            /\ IF stepResult.value[i].key \in NumericKeys
               THEN /\ stepResult.value[i].value.type = "int"
                    /\ stepResult.value[i].value.n >= 0
               ELSE /\ stepResult.value[i].value.type = "str"
                    /\ stepResult.value[i].value.s # << >>
                    /\ \E c \in Range(stepResult.value[i].value.s) : ~IsSpace(c)
        /\ DOMAIN LowerStep(Step(StepNamed, stepResult.value)).attributes \subseteq RecognizedKeys

C27_Witness ==
    /\ stepResult.kind = "return"
    /\ Len(stepResult.value) = 1
    /\ stepResult.value[1].key = retry
    /\ \E i \in DOMAIN stepLines : Unrecognized(stepLines[i]) /\ stepLines[i].key = priority
    /\ DOMAIN LowerStep(Step(StepNamed, stepResult.value)).attributes = { retry }


\* the call of thread t ended because _load_schema raised
LoadFailed(t) ==
    /\ pc[t] = "done"
    /\ thrown[t] # NoError
    /\ thrown[t].type \in LoaderErrors
    /\ thrown[t] # ReadText("nonexistent.sf.md").exc

\* thread t is inside _load_schema, past the test of the cache
Loading(t) == pc[t] \in { "load_packaged", "load_fallback", "load_build" }

\* C28: a _load_schema that fails raises and leaves _SCHEMA_CACHE unset, so
\* the next validate_ir finds the cache empty and attempts the load again;
\* no call is handed a validator other than one built from the whole schema
\* document
C28_FailedLoadLeavesCacheUnset ==
    /\ \A t \in Threads :
          LoadFailed(t) =>
             /\ result[t].kind = "raise"
             /\ CacheIsEmpty(cache)
             /\ \A u \in Threads \ {t} :
                   /\ pc[u] # "load_return"
                   /\ pc[u] # "validate"
    /\ \A t \in Threads :
          pc[t] = "validate" =>
             /\ ~ CacheIsEmpty(validator[t])
             /\ validator[t].document = env.document
             /\ validator[t] = cache

\* one call has ended with the loader's error and the next is loading again
C28_Witness ==
    \E t \in Threads : \E u \in Threads \ {t} :
        /\ LoadFailed(t)
        /\ Loading(u)
        /\ calls = 2


\* thread t has finished a call that takes a path, and the call raised
FileCallRaised(t) ==
    /\ pc[t] = "done"
    /\ call[t].fn \in FileFunctions
    /\ result[t].kind = "raise"

\* the exception says that the file could not be read
SaysReadFailed(exc) ==
    /\ exc.type = "ParseError"
    /\ Len(exc.message) > 0
    /\ exc.message[1] = "Failed to read file "

\* C30 as stated: parse_file keeps a failure to read apart from a failure of
\* the syntax: the caller sees "Failed to read file <path>" only when
\* read_text failed, and a failure of the grammar or of the transformer
\* arrives as the ParseError that parse_string raised
C30_ReadFailureDistinguished ==
    \A t \in Threads :
        FileCallRaised(t) =>
            /\ SaysReadFailed(result[t].exc) => ReadText(call[t].path).kind = "raise"
            /\ (ReadText(call[t].path).kind = "return" /\ workflow[t] = None) =>
                  result[t].exc = ParseStringHandler(thrown[t], call[t].path)

\* parse_file has read its file, the text failed to parse, and the caller is
\* told that the file could not be read
C30_Witness ==
    \E t \in Threads :
        /\ FileCallRaised(t)
        /\ call[t].fn = "parse_file"
        /\ ReadText(call[t].path).kind = "return"
        /\ content[t] = ReadText(call[t].path).value
        /\ thrown[t].type = "LarkError"
        /\ SaysReadFailed(result[t].exc)
        /\ result[t].exc =
              ParseFileHandler(ParseStringHandler(thrown[t], call[t].path), call[t].path)


\* the compile command has run to its exit
CompileExited == cli.kind = "run" /\ cli.pc = "exited" /\ cli.inv.cmd = "compile"

\* the workflow file was there and compile_file gave an IR
SourceCompiles(r, files) == Exists(files, r.file) /\ r.compiled.kind = "return"

\* a secret of the workflow names an environment variable that is not set
SecretsMissing(r) == ValidateSecrets(r.compiled.value.workflow.secrets, r.environ) # << >>

UnknownAdapter(r) == r.target \notin DOMAIN ADAPTERS

\* the adapter is known and lacks a feature the workflow needs
HasGaps(r) ==
    /\ ~ UnknownAdapter(r)
    /\ GetRequiredFeatures(r.compiled.value) \ ADAPTERS[r.target] # { }

\* one of the three configuration errors is present
ConfigurationError(r) ==
    \/ SecretsMissing(r)
    \/ UnknownAdapter(r)
    \/ (HasGaps(r) /\ ~ r.ai_escapes)

\* --output names a file that is there, and --overwrite is not given
OutputRefused(r, files) == r.output # NoPath /\ Exists(files, r.output) /\ ~ r.overwrite

\* C23 as stated: when the source compiles and a configuration error is
\* present, compile ends with exit code 2 and adapter.emit is never called;
\* with gaps and --ai-escapes on it proceeds to the emission
C23_ConfigErrorExitsTwo ==
    (CompileExited /\ SourceCompiles(cli.inv, cli.before)) =>
        /\ ConfigurationError(cli.inv) => (cli.exit = 2 /\ cli.emits = 0)
        /\ (HasGaps(cli.inv) /\ cli.inv.ai_escapes /\ ~ SecretsMissing(cli.inv)) =>
               cli.emits = 1

\* C23: when the source compiles and a configuration error is present,
\* adapter.emit is never called, and compile ends with exit code 2 unless the
\* secrets are all set and --output names an existing file without
\* --overwrite, which ends it with exit code 1 before the adapter is looked
\* up; with gaps, --ai-escapes on, the secrets set and the output path not
\* refused, compile proceeds to the emission
C23_ConfigErrorStopsBeforeEmit ==
    (CompileExited /\ SourceCompiles(cli.inv, cli.before)) =>
        /\ ConfigurationError(cli.inv) =>
              /\ cli.emits = 0
              /\ cli.exit = IF ~ SecretsMissing(cli.inv) /\ OutputRefused(cli.inv, cli.before)
                            THEN 1 ELSE 2
        /\ (HasGaps(cli.inv) /\ cli.inv.ai_escapes /\ ~ SecretsMissing(cli.inv)
            /\ ~ OutputRefused(cli.inv, cli.before)) =>
               cli.emits = 1

\* compile has stopped with exit code 2 on capability gaps, nothing emitted
C23_Witness ==
    /\ CompileExited
    /\ SourceCompiles(cli.inv, cli.before)
    /\ ~ SecretsMissing(cli.inv)
    /\ HasGaps(cli.inv)
    /\ ~ cli.inv.ai_escapes
    /\ cli.exit = 2
    /\ cli.emits = 0
    /\ disk = cli.before


\* the output path of a command line: --output, or the path derived from the
\* name of the workflow file
ResolvedOutput(r) ==
    IF r.output # NoPath THEN r.output
    ELSE IF r.cmd = "compile" THEN DefaultCompileOutput(r.file, r.target, r.outdir)
    ELSE DefaultGraphOutput(r.file, r.out_fmt)

\* the output path of the run names a file that was there before, and
\* --overwrite is not given
MustNotOverwrite(r, files) == ~ r.overwrite /\ Exists(files, ResolvedOutput(r))

\* the run has come to the point where the output path is determined
ReachesOutput(r, files) ==
    /\ SourceCompiles(r, files)
    /\ r.cmd = "compile" => ~ SecretsMissing(r)

\* C26 as stated: compile and graph never write to an output path that
\* exists unless --overwrite is given, whether the path was passed by the
\* user or derived by default; the refusal is exit code 1 and the file is
\* left as it was
C26_NeverOverwritesWithoutFlag ==
    (cli.kind = "run" /\ MustNotOverwrite(cli.inv, cli.before)) =>
        /\ File(ResolvedOutput(cli.inv), "old") \in disk
        /\ (cli.pc = "exited" /\ ReachesOutput(cli.inv, cli.before)) =>
              (cli.exit = 1 /\ disk = cli.before)

\* graph has run without --output and without --overwrite, the derived
\* output file was there before, and the run has written over it
C26_Witness ==
    /\ cli.kind = "run"
    /\ cli.pc = "exited"
    /\ cli.inv.cmd = "graph"
    /\ cli.inv.output = NoPath
    /\ MustNotOverwrite(cli.inv, cli.before)
    /\ cli.output = DefaultGraphOutput(cli.inv.file, cli.inv.out_fmt)
    /\ File(cli.output, "old") \in cli.before
    /\ File(cli.output, "new") \in disk
    /\ cli.exit = 0


\* thread t has its answer from generate_workflow_graph
Rendered(t) == render[t].kind = "call" /\ render[t].pc = "returned"

\* the probe finds the tool: shutil.which gives a path and the version
\* command ends with status 0
ToolAvailable(tool) == toolEnv[tool] \in { "norender", "ok" }

InsideLock(t) == render[t].kind = "call" /\ render[t].pc \in { "check", "probe", "read" }

====
